---- MODULE Spec2Model ----
(***************************************************************************)
(* A model of the video-generation front end: the prompt form             *)
(* (src/components/PromptForm.tsx), the application state machine          *)
(* (src/App.tsx, the first App component of the file, lines 51-399) and    *)
(* the request/poll/fetch sequence generateVideo (src/unnamed/part_000).   *)
(*                                                                         *)
(* Text is a sequence of tokens.  A token is a fragment of text that no    *)
(* pattern the code searches for straddles, so String.includes is          *)
(* "contiguous subsequence" and String.trim drops whitespace tokens at     *)
(* both ends.  Numbers are formatted into decimal digit tokens.            *)
(* An optional value (null / undefined / absent key) is None or Some(x).   *)
(***************************************************************************)
EXTENDS Integers, Sequences, FiniteSets, TLC

\* ------------------------------------------------------------ bounds
\* how many times the user may start a generation (form submit or Retry)
MaxUserActs == 2
\* how many done=false handles the provider returns to one request
MaxPolls == 2
\* how many file selections of one form may be waiting for their FileReader
MaxPending == 2
\* how many events on the form (typing, selecting, removing) the user makes
MaxEdits == 3

\* ------------------------------------------------------------ options
None == [some |-> FALSE]
Some(x) == [some |-> TRUE, val |-> x]
IsSome(o) == o.some

\* ------------------------------------------------------------ text
Contains(s, sub) ==
    \E i \in 1..(Len(s) - Len(sub) + 1) : SubSeq(s, i, i + Len(sub) - 1) = sub

\* String.prototype.indexOf: 0 when absent, else the first position (1-based)
IndexOf(s, sub) ==
    IF Contains(s, sub)
    THEN CHOOSE i \in 1..(Len(s) - Len(sub) + 1) :
            /\ SubSeq(s, i, i + Len(sub) - 1) = sub
            /\ \A j \in 1..(i - 1) : SubSeq(s, j, j + Len(sub) - 1) # sub
    ELSE 0

IsSpace(t) == t \in {" ", "\n\n"}

RECURSIVE TrimStart(_)
TrimStart(s) ==
    IF s # <<>> /\ IsSpace(Head(s)) THEN TrimStart(Tail(s)) ELSE s

RECURSIVE TrimEnd(_)
TrimEnd(s) ==
    IF s # <<>> /\ IsSpace(s[Len(s)]) THEN TrimEnd(SubSeq(s, 1, Len(s) - 1)) ELSE s

Trim(s) == TrimEnd(TrimStart(s))

Digit(d) == <<"0", "1", "2", "3", "4", "5", "6", "7", "8", "9">>[d + 1]

RECURSIVE IntToStr(_)
IntToStr(n) ==
    IF n < 10 THEN <<Digit(n)>> ELSE IntToStr(n \div 10) \o <<Digit(n % 10)>>

\* String.prototype.toLowerCase on the tokens failure texts are made of
LowerToken(t) ==
    CASE t = "Permission Denied" -> "permission denied"
      [] t = "PERMISSION DENIED" -> "permission denied"
      [] t = "PERMISSION_DENIED" -> "permission_denied"
      [] t = "RESOURCE_EXHAUSTED" -> "resource_exhausted"
      [] t = "API_KEY_INVALID" -> "api_key_invalid"
      [] t = "API key not valid" -> "api key not valid"
      [] t = "X" -> "x"
      [] t = "Quota: " -> "quota: "
      [] t = "You " -> "you "
      [] t = "OK" -> "ok"
      [] t = "Forbidden" -> "forbidden"
      [] t = "Failed to fetch" -> "failed to fetch"
      [] t = "Failed to fetch video: " -> "failed to fetch video: "
      [] t = "Video generation failed: " -> "video generation failed: "
      [] t = " (Code: " -> " (code: "
      [] t = "The model did not generate a video" -> "the model did not generate a video"
      [] t = "Reason: " -> "reason: "
      [] t = "Generated video is missing a URI." -> "generated video is missing a uri."
      [] t = "Video generation finished without a response or an error. Please try again." ->
            "video generation finished without a response or an error. please try again."
      [] t = ", which may be due to safety filters. Please try modifying your prompt or images." ->
            ", which may be due to safety filters. please try modifying your prompt or images."
      [] t = "Video object is required for Extend Video mode." ->
            "video object is required for extend video mode."
      [] t = "A prompt is required to describe what happens next in the video extension." ->
            "a prompt is required to describe what happens next in the video extension."
      [] t = "An unknown error occurred." -> "an unknown error occurred."
      [] OTHER -> t

ToLowerCase(s) == [i \in 1..Len(s) |-> LowerToken(s[i])]

RECURSIVE Join(_, _)
Join(list, sep) ==
    IF list = <<>> THEN <<>>
    ELSE IF Len(list) = 1 THEN list[1]
    ELSE list[1] \o sep \o Join(Tail(list), sep)

\* ------------------------------------------------------------ enumerations
TEXT_TO_VIDEO == "Text to Video"
IMAGE_TO_VIDEO == "Image to Video"
FRAMES_TO_VIDEO == "Frames to Video"
REFERENCES_TO_VIDEO == "References to Video"
EXTEND_VIDEO == "Extend Video"
IMAGE_STORY == "Image Story"

\* the modes the form's selector lists
\* Object.values(GenerationMode), one button of the mode selector each
FormModes ==
    {TEXT_TO_VIDEO, IMAGE_TO_VIDEO, FRAMES_TO_VIDEO, REFERENCES_TO_VIDEO, EXTEND_VIDEO,
     IMAGE_STORY}

VEO == "veo"
VEO_FAST == "veo-fast"
VeoModels == {VEO, VEO_FAST}

LANDSCAPE == "16:9"
PORTRAIT == "9:16"
AspectRatios == {LANDSCAPE, PORTRAIT}

P720 == "720p"
P1080 == "1080p"
Resolutions == {P720, P1080}

IDLE == "IDLE"
LOADING == "LOADING"
SUCCESS == "SUCCESS"
ERROR == "ERROR"

API_KEY == "K"

\* ------------------------------------------------------------ media
ImgA == [file |-> [name |-> "a.png", type |-> "image/png"], base64 |-> "AAAA"]
ImgB == [file |-> [name |-> "b.jpg", type |-> "image/jpeg"], base64 |-> "BBBB"]

\* ------------------------------------------------------------ request parameters
\* GenerateVideoParams as handleSubmit builds it (no videoObject key)
FormParams(f) ==
    [prompt |-> f.prompt, model |-> f.model, aspectRatio |-> f.aspectRatio,
     resolution |-> f.resolution, mode |-> f.generationMode,
     startFrame |-> f.startFrame, endFrame |-> f.endFrame,
     referenceImages |-> f.referenceImages, styleImage |-> f.styleImage,
     inputVideo |-> f.inputVideo, isLooping |-> f.isLooping,
     duration |-> f.duration, videoObject |-> None]

\* ------------------------------------------------------------ generateVideo: the payload
promptText(params) == Trim(params.prompt)

\* variant: the prompt always takes the duration of the request
durationForPromptAsGiven(params) == params.duration

durationForPrompt(params) ==
    IF params.mode = EXTEND_VIDEO THEN 7 ELSE params.duration

\* variant: no prompt is made up when the user's prompt is blank
finalPromptBare(params) ==
    IF promptText(params) # <<>>
    THEN <<"A ">> \o IntToStr(durationForPrompt(params))
            \o <<" second video of: ">> \o promptText(params)
    ELSE <<>>

finalPrompt(params) ==
    IF promptText(params) # <<>>
    THEN <<"A ">> \o IntToStr(durationForPrompt(params))
            \o <<" second video of: ">> \o promptText(params)
    ELSE <<"A ">> \o IntToStr(durationForPrompt(params)) \o <<" second video.">>

\* the two throws that precede the submission call; None when neither fires
ValidationError(params) ==
    IF params.mode = EXTEND_VIDEO /\ ~IsSome(params.videoObject)
    THEN Some(<<"Video object is required for Extend Video mode.">>)
    ELSE IF params.mode = EXTEND_VIDEO /\ promptText(params) = <<>>
    THEN Some(<<"A prompt is required to describe what happens next in the video extension.">>)
    ELSE None

ImagePayload(img) ==
    [imageBytes |-> img.base64, mimeType |-> img.file.type]

\* variant: the loop flag is ignored
finalEndFrameNoLoop(params) == params.endFrame

finalEndFrame(params) ==
    IF params.isLooping THEN params.startFrame ELSE params.endFrame

referenceImagesPayload(params) ==
    [i \in 1..Len(params.referenceImages) |->
        [image |-> ImagePayload(params.referenceImages[i]), referenceType |-> "ASSET"]]
    \o (IF params.mode = REFERENCES_TO_VIDEO /\ IsSome(params.styleImage)
        THEN <<[image |-> ImagePayload(params.styleImage.val), referenceType |-> "STYLE"]>>
        ELSE <<>>)

PayloadImage(params) ==
    IF params.mode \in {IMAGE_TO_VIDEO, FRAMES_TO_VIDEO} /\ IsSome(params.startFrame)
    THEN Some(ImagePayload(params.startFrame.val))
    ELSE None

PayloadLastFrame(params) ==
    IF params.mode = FRAMES_TO_VIDEO /\ IsSome(finalEndFrame(params))
    THEN Some(ImagePayload(finalEndFrame(params).val))
    ELSE None

PayloadReferenceImages(params) ==
    IF params.mode \in {REFERENCES_TO_VIDEO, IMAGE_STORY}
       /\ Len(referenceImagesPayload(params)) > 0
    THEN Some(referenceImagesPayload(params))
    ELSE None

\* the payload handed to ai.models.generateVideos (defined when ValidationError is None)
generateVideoPayload(params) ==
    LET extend == params.mode = EXTEND_VIDEO /\ IsSome(params.videoObject)
    IN  [model |-> IF extend THEN VEO ELSE params.model,
         prompt |-> finalPrompt(params),
         config |->
            [numberOfVideos |-> 1,
             aspectRatio |-> params.aspectRatio,
             resolution |-> IF extend THEN P720 ELSE params.resolution,
             durationSecs |-> IF extend THEN 7 ELSE params.duration,
             lastFrame |-> PayloadLastFrame(params),
             referenceImages |-> PayloadReferenceImages(params)],
         image |-> PayloadImage(params),
         video |-> IF extend THEN params.videoObject ELSE None]

\* ------------------------------------------------------------ generateVideo: the terminal handle
Throw(message) == [kind |-> "throw", message |-> message]
Fetch(url, video) == [kind |-> "fetch", url |-> url, video |-> video]

\* `${url}&key=${process.env.API_KEY}`
finalUrl(url) == url \o <<"&key=", API_KEY>>

\* variant: the code is left out of the message
OperationErrorMessageNoCode(error) ==
    <<"Video generation failed: ">> \o error.message

OperationErrorMessage(error) ==
    <<"Video generation failed: ">> \o error.message
        \o <<" (Code: ">> \o IntToStr(error.code) \o <<")">>

\* variant: only the first reason is reported
SafetyReasonMessageFirst(raiReasons) ==
    <<"The model did not generate a video", " due to safety policies. ", "Reason: ">>
        \o raiReasons[1]

SafetyReasonMessage(raiReasons) ==
    <<"The model did not generate a video", " due to safety policies. ", "Reason: ">>
        \o Join(raiReasons, <<" ">>)

NoVideoMessage ==
    <<"The model did not generate a video",
      ", which may be due to safety filters. Please try modifying your prompt or images.">>

MissingUriMessage == <<"Generated video is missing a URI.">>

NoResponseMessage ==
    <<"Video generation finished without a response or an error. Please try again.">>

\* firstVideo?.video?.uri is truthy
HasUri(entry) ==
    /\ IsSome(entry.video)
    /\ IsSome(entry.video.val.uri)
    /\ entry.video.val.uri.val # <<>>

\* variant: a reasons list that is present but empty is reported as a reason
TerminalAnyReasonsList(operation) ==
    IF IsSome(operation.error)
    THEN Throw(OperationErrorMessage(operation.error.val))
    ELSE IF IsSome(operation.response)
    THEN LET videos == operation.response.val.generatedVideos
             raiReasons == operation.response.val.raiMediaFilteredReasons
         IN  IF ~IsSome(videos) \/ Len(videos.val) = 0
             THEN IF IsSome(raiReasons)
                  THEN Throw(SafetyReasonMessage(raiReasons.val))
                  ELSE Throw(NoVideoMessage)
             ELSE IF ~HasUri(videos.val[1])
             THEN Throw(MissingUriMessage)
             ELSE Fetch(finalUrl(videos.val[1].video.val.uri.val), videos.val[1].video.val)
    ELSE Throw(NoResponseMessage)

\* variant: a first result without a location is fetched from the key alone
TerminalFetchesWithoutUri(operation) ==
    IF IsSome(operation.error)
    THEN Throw(OperationErrorMessage(operation.error.val))
    ELSE IF IsSome(operation.response)
    THEN LET videos == operation.response.val.generatedVideos
             raiReasons == operation.response.val.raiMediaFilteredReasons
         IN  IF ~IsSome(videos) \/ Len(videos.val) = 0
             THEN IF IsSome(raiReasons) /\ Len(raiReasons.val) > 0
                  THEN Throw(SafetyReasonMessage(raiReasons.val))
                  ELSE Throw(NoVideoMessage)
             ELSE IF ~HasUri(videos.val[1])
             THEN Fetch(finalUrl(<<>>), videos.val[1].video.val)
             ELSE Fetch(finalUrl(videos.val[1].video.val.uri.val), videos.val[1].video.val)
    ELSE Throw(NoResponseMessage)

\* variant: a response is used before the error is looked at
TerminalResponseFirst(operation) ==
    IF IsSome(operation.response)
    THEN LET videos == operation.response.val.generatedVideos
             raiReasons == operation.response.val.raiMediaFilteredReasons
         IN  IF ~IsSome(videos) \/ Len(videos.val) = 0
             THEN IF IsSome(raiReasons) /\ Len(raiReasons.val) > 0
                  THEN Throw(SafetyReasonMessage(raiReasons.val))
                  ELSE Throw(NoVideoMessage)
             ELSE IF ~HasUri(videos.val[1])
             THEN Throw(MissingUriMessage)
             ELSE Fetch(finalUrl(videos.val[1].video.val.uri.val), videos.val[1].video.val)
    ELSE IF IsSome(operation.error)
    THEN Throw(OperationErrorMessage(operation.error.val))
    ELSE Throw(NoResponseMessage)

\* what generateVideo does with a handle once the loop has ended:
\* throw, or fetch the first result's location
Terminal(operation) ==
    IF IsSome(operation.error)
    THEN Throw(OperationErrorMessage(operation.error.val))
    ELSE IF IsSome(operation.response)
    THEN LET videos == operation.response.val.generatedVideos
             raiReasons == operation.response.val.raiMediaFilteredReasons
         IN  IF ~IsSome(videos) \/ Len(videos.val) = 0
             THEN IF IsSome(raiReasons) /\ Len(raiReasons.val) > 0
                  THEN Throw(SafetyReasonMessage(raiReasons.val))
                  ELSE Throw(NoVideoMessage)
             ELSE IF ~HasUri(videos.val[1])
             THEN Throw(MissingUriMessage)
             ELSE Fetch(finalUrl(videos.val[1].video.val.uri.val), videos.val[1].video.val)
    ELSE Throw(NoResponseMessage)

FetchFailedMessage(res) ==
    <<"Failed to fetch video: ">> \o IntToStr(res.status) \o <<" ", res.statusText>>

\* URL.createObjectURL(videoBlob)
createObjectURL(blob) == <<"blob:", blob.data>>

\* ------------------------------------------------------------ handleGenerate: classification
\* error instanceof Error ? error.message : 'An unknown error occurred.'
errorMsgString(thrown) ==
    IF thrown.isError THEN thrown.message ELSE <<"An unknown error occurred.">>

IsQuotaError(msg) ==
    \/ Contains(msg, <<"exceeded your current quota">>)
    \/ Contains(msg, <<"RESOURCE_EXHAUSTED">>)

IsSafetyError(msg) == Contains(msg, <<"The model did not generate a video">>)

\* variant: the permission phrase is matched without lower-casing the text
IsKeyErrorCaseSensitive(msg) ==
    \/ Contains(msg, <<"API_KEY_INVALID">>)
    \/ Contains(msg, <<"API key not valid">>)
    \/ Contains(msg, <<"permission denied">>)
    \/ Contains(msg, <<"Requested entity was not found.">>)

IsKeyError(msg) ==
    \/ Contains(msg, <<"API_KEY_INVALID">>)
    \/ Contains(msg, <<"API key not valid">>)
    \/ Contains(ToLowerCase(msg), <<"permission denied">>)
    \/ Contains(msg, <<"Requested entity was not found.">>)

\* variant: the prefix is looked for in lower case
reasonPrefixLowerCase == <<"reason: ">>

reasonPrefix == <<"Reason: ">>

QuotaText ==
    <<"You've exceeded your current quota. Please check your plan and billing details.",
      "For more information, visit the ", "API rate limits documentation", ".">>

\* the two fixed paragraphs of the policy warning, which the source has in
\* Bengali; they are given here by their English reading
baseMessage ==
    <<"Sorry, your video could not be created. One or more of your images seem to violate our safety policy.",
      "Please change the images and try again.">>

\* the policy warning's title, "Image Policy Issue"
PolicyTitle == "ছবি সংক্রান্ত নীতি সমস্যা"

KeyErrorText ==
    <<"Video generation failed due to an API key or permission issue. Please check if the API key is valid and has the required permissions.">>

\* variant: the policy phrase is tested before the quota phrases
ErrorDetailsForPolicyFirst(msg) ==
    IF IsSafetyError(msg)
    THEN [title |-> PolicyTitle,
          message |-> [text |-> baseMessage, reason |-> None, details |-> Some(msg)],
          type |-> "warning"]
    ELSE IF IsQuotaError(msg)
    THEN [title |-> "Quota Exceeded",
          message |-> [text |-> QuotaText, reason |-> None, details |-> None],
          type |-> "error"]
    ELSE [title |-> "Error",
          message |->
             [text |-> IF IsKeyError(msg) THEN KeyErrorText
                       ELSE <<"Video generation failed: ">> \o msg,
              reason |-> None, details |-> None],
          type |-> "error"]

\* the errorDetails the catch block sets for a failure text
ErrorDetailsFor(msg) ==
    IF IsQuotaError(msg)
    THEN [title |-> "Quota Exceeded",
          message |-> [text |-> QuotaText, reason |-> None, details |-> None],
          type |-> "error"]
    ELSE IF IsSafetyError(msg)
    THEN LET reasonIndex == IndexOf(msg, reasonPrefix)
         IN  [title |-> PolicyTitle,
              message |->
                 IF reasonIndex # 0
                 THEN [text |-> baseMessage,
                       reason |-> Some(SubSeq(msg, reasonIndex + Len(reasonPrefix), Len(msg))),
                       details |-> None]
                 ELSE [text |-> baseMessage, reason |-> None, details |-> Some(msg)],
              type |-> "warning"]
    ELSE [title |-> "Error",
          message |->
             [text |-> IF IsKeyError(msg) THEN KeyErrorText
                       ELSE <<"Video generation failed: ">> \o msg,
              reason |-> None, details |-> None],
          type |-> "error"]

\* variant: the flag is set wherever the policy phrase occurs
SetsClearImagesOnPhrase(msg) == IsSafetyError(msg)

\* whether the catch block calls setClearImagesOnTryAgain(true)
SetsClearImages(msg) == ~IsQuotaError(msg) /\ IsSafetyError(msg)

\* ------------------------------------------------------------ state
VARIABLES
    appState,               \* App: IDLE, LOADING, SUCCESS or ERROR
    videoUrl,               \* App: object URL of the generated video, or None
    errorDetails,           \* App: {title, message, type}, or None
    lastConfig,             \* App: the parameters of the last handleGenerate, or None
    lastVideoObject,        \* App: the provider's descriptor of the last result, or None
    lastVideoBlob,          \* App: the fetched content of the last result, or None
    initialFormValues,      \* App: what the next PromptForm is prepopulated with, or None
    clearImagesOnTryAgain,  \* App: set by a policy rejection
    form,                   \* the mounted PromptForm's state, None while no form is rendered
    pending,                \* file selections of the mounted form whose FileReader has not finished
    calls,                  \* the generateVideo invocations that have not been consumed yet
    nUserActs,              \* history: form submits and Retry clicks so far
    nSubmitCalls,           \* history: calls of ai.models.generateVideos so far
    nEdits                  \* history: the user's events on the form so far

vars ==
    <<appState, videoUrl, errorDetails, lastConfig, lastVideoObject, lastVideoBlob,
      initialFormValues, clearImagesOnTryAgain, form, pending, calls, nUserActs,
      nSubmitCalls, nEdits>>

appVars ==
    <<appState, videoUrl, errorDetails, lastConfig, lastVideoObject, lastVideoBlob,
      initialFormValues, clearImagesOnTryAgain>>

\* ------------------------------------------------------------ PromptForm
maxDuration(model) == IF model = VEO THEN 30 ELSE 15

\* variant: the duration is left as it is when the model changes
ClampEffectOff(f) == f

\* useEffect [model, duration, maxDuration]
ClampEffect(f) ==
    IF f.duration > maxDuration(f.model)
    THEN [f EXCEPT !.duration = maxDuration(f.model)]
    ELSE f

\* variant: the effect pins the aspect ratio and the resolution only
RefModeEffectKeepsModel(f) ==
    IF f.generationMode = REFERENCES_TO_VIDEO
    THEN [f EXCEPT !.aspectRatio = LANDSCAPE, !.resolution = P720]
    ELSE f

\* useEffect [generationMode]
RefModeEffect(f) ==
    IF f.generationMode = REFERENCES_TO_VIDEO
    THEN [f EXCEPT !.model = VEO, !.aspectRatio = LANDSCAPE, !.resolution = P720]
    ELSE f

\* the useState initialisers (the same values the [initialValues] effect sets)
InitialForm(initialValues) ==
    IF IsSome(initialValues)
    THEN LET v == initialValues.val
         IN  [prompt |-> v.prompt, model |-> v.model, aspectRatio |-> v.aspectRatio,
              resolution |-> v.resolution, generationMode |-> v.mode,
              startFrame |-> v.startFrame, endFrame |-> v.endFrame,
              referenceImages |-> v.referenceImages, styleImage |-> v.styleImage,
              inputVideo |-> v.inputVideo, isLooping |-> v.isLooping,
              duration |-> v.duration]
    ELSE [prompt |-> <<>>, model |-> VEO_FAST, aspectRatio |-> PORTRAIT,
          resolution |-> P720, generationMode |-> TEXT_TO_VIDEO,
          startFrame |-> None, endFrame |-> None, referenceImages |-> <<>>,
          styleImage |-> None, inputVideo |-> None, isLooping |-> FALSE,
          duration |-> 15]

\* the form once its mount effects have run: both effects see the first render,
\* then the clamp runs again on what they set
MountForm(initialValues) ==
    ClampEffect(RefModeEffect(ClampEffect(InitialForm(initialValues))))

\* variant: the prompt is tested without trim()
isSubmitDisabledNoTrim(f) ==
    CASE f.generationMode = TEXT_TO_VIDEO -> f.prompt = <<>>
      [] f.generationMode = IMAGE_TO_VIDEO -> ~IsSome(f.startFrame)
      [] f.generationMode = FRAMES_TO_VIDEO -> ~IsSome(f.startFrame)
      [] f.generationMode = REFERENCES_TO_VIDEO ->
            Len(f.referenceImages) = 0 \/ f.prompt = <<>>
      [] OTHER -> FALSE

\* the submit button's disabled attribute
isSubmitDisabled(f) ==
    CASE f.generationMode = TEXT_TO_VIDEO -> Trim(f.prompt) = <<>>
      [] f.generationMode = IMAGE_TO_VIDEO -> ~IsSome(f.startFrame)
      [] f.generationMode = FRAMES_TO_VIDEO -> ~IsSome(f.startFrame)
      [] f.generationMode = REFERENCES_TO_VIDEO ->
            Len(f.referenceImages) = 0 \/ Trim(f.prompt) = <<>>
      [] OTHER -> FALSE

\* variant: one reason for every disabled state
tooltipTextOneReason(f) ==
    IF isSubmitDisabled(f) THEN "Please enter a prompt." ELSE ""

\* the reason shown on the disabled submit button ('' when none)
tooltipText(f) ==
    CASE f.generationMode = TEXT_TO_VIDEO ->
            IF Trim(f.prompt) = <<>> THEN "Please enter a prompt." ELSE ""
      [] f.generationMode = IMAGE_TO_VIDEO ->
            IF ~IsSome(f.startFrame) THEN "A source image is required." ELSE ""
      [] f.generationMode = FRAMES_TO_VIDEO ->
            IF ~IsSome(f.startFrame) THEN "A start frame is required." ELSE ""
      [] f.generationMode = REFERENCES_TO_VIDEO ->
            LET hasNoRefs == Len(f.referenceImages) = 0
                hasNoPrompt == Trim(f.prompt) = <<>>
            IN  IF hasNoRefs /\ hasNoPrompt
                THEN "Please add reference image(s) and enter a prompt."
                ELSE IF hasNoRefs THEN "At least one reference image is required."
                ELSE IF hasNoPrompt THEN "Please enter a prompt."
                ELSE ""
      [] OTHER -> ""

\* variant: every selected file is added
AddReferencesUncapped(prevImages, newImages) == prevImages \o newImages

\* handleReferenceSelect's functional update
AddReferences(prevImages, newImages) ==
    LET spaceLeft == 3 - Len(prevImages)
    IN  IF spaceLeft <= 0 THEN prevImages
        ELSE prevImages \o SubSeq(newImages, 1, IF Len(newImages) < spaceLeft
                                                 THEN Len(newImages) ELSE spaceLeft)

\* imgs.filter((_, i) => i !== index), index counted from 1 here
RemoveAt(imgs, index) ==
    SubSeq(imgs, 1, index - 1) \o SubSeq(imgs, index + 1, Len(imgs))

\* which file inputs the form renders
UploadShown(f, target) ==
    CASE target = "start" ->
            f.generationMode \in {IMAGE_TO_VIDEO, FRAMES_TO_VIDEO} /\ ~IsSome(f.startFrame)
      [] target = "end" ->
            f.generationMode = FRAMES_TO_VIDEO /\ ~f.isLooping /\ ~IsSome(f.endFrame)
      [] target = "refs" ->
            f.generationMode = REFERENCES_TO_VIDEO /\ Len(f.referenceImages) < 3
      [] target = "style" ->
            f.generationMode = REFERENCES_TO_VIDEO /\ ~IsSome(f.styleImage)
      [] OTHER -> FALSE

\* the onSelect callback of the upload a selection was made in
OnSelect(f, target, images) ==
    CASE target = "start" -> [f EXCEPT !.startFrame = Some(images[1])]
      [] target = "end" -> [f EXCEPT !.endFrame = Some(images[1])]
      [] target = "style" -> [f EXCEPT !.styleImage = Some(images[1])]
      [] OTHER -> [f EXCEPT !.referenceImages = AddReferences(@, images)]

\* ------------------------------------------------------------ what the user and the provider may supply
UserPrompts == {<<>>, <<" ">>, <<"cat">>}
UserDurations == {1, 16, 30}
UserFileLists == {<<ImgA>>, <<ImgB, ImgA>>}
UploadTargets == {"start", "end", "refs", "style"}

VideoWithQuery == [uri |-> Some(<<"https://v/1", "?alt=media">>), id |-> "v1"]
VideoNoQuery == [uri |-> Some(<<"https://v/2">>), id |-> "v2"]
VideoNoUri == [uri |-> None, id |-> "v3"]

NotDone == [done |-> FALSE, error |-> None, response |-> None]
DoneError(message, code) ==
    [done |-> TRUE, error |-> Some([message |-> message, code |-> code]), response |-> None]
DoneResponse(videos, reasons) ==
    [done |-> TRUE, error |-> None,
     response |-> Some([generatedVideos |-> videos, raiMediaFilteredReasons |-> reasons])]
DoneNothing == [done |-> TRUE, error |-> None, response |-> None]

ProviderErrorMessages ==
    {<<"X">>,
     <<"Quota: ", "RESOURCE_EXHAUSTED">>,
     <<"The model did not generate a video", ": ", "RESOURCE_EXHAUSTED">>,
     <<"The model did not generate a video", ": ", "API key not valid">>,
     <<"API key not valid">>,
     <<"Permission Denied">>}
ProviderErrorCodes == {7, 429}
ProviderReasons == {<<<<"violent content">>>>, <<<<"violent content">>, <<"celebrity">>>>}

Handles ==
    {NotDone, DoneNothing,
     [DoneResponse(Some(<<[video |-> Some(VideoNoQuery)]>>), None)
        EXCEPT !.error = Some([message |-> <<"X">>, code |-> 13])],
     DoneResponse(None, None)}
    \cup {DoneError(m, c) : m \in ProviderErrorMessages, c \in ProviderErrorCodes}
    \cup {DoneResponse(Some(<<[video |-> Some(v)]>>), None) :
            v \in {VideoWithQuery, VideoNoQuery, VideoNoUri}}
    \cup {DoneResponse(Some(<<>>), r) :
            r \in {None, Some(<<>>)} \cup {Some(x) : x \in ProviderReasons}}

\* what a rejected SDK call or fetch throws
Rejections ==
    {[isError |-> TRUE, message |-> <<"Failed to fetch">>],
     [isError |-> TRUE, message |-> <<"You ", "exceeded your current quota", ". ", "API_KEY_INVALID">>],
     [isError |-> FALSE, message |-> <<>>]}

FetchResponses ==
    {[ok |-> TRUE, status |-> 200, statusText |-> "OK",
      blob |-> [type |-> "video/mp4", data |-> "V"]],
     [ok |-> FALSE, status |-> 403, statusText |-> "Forbidden",
      blob |-> [type |-> "text/plain", data |-> ""]]}

\* ------------------------------------------------------------ generateVideo: one invocation
\* the delay of setTimeout in the polling loop, in milliseconds
POLL_INTERVAL_MS == 10000

\* an invocation up to its first await: the validation throws, or the payload
\* is handed to ai.models.generateVideos
NewCall(params) ==
    IF IsSome(ValidationError(params))
    THEN [params |-> params, pc |-> "rejected", payload |-> None, operation |-> None,
          polls |-> 0, statusCalls |-> 0, waited |-> 0,
          fetch |-> None, res |-> None, result |-> None,
          thrown |-> Some([isError |-> TRUE, message |-> ValidationError(params).val])]
    ELSE [params |-> params, pc |-> "submit",
          payload |-> Some(generateVideoPayload(params)), operation |-> None,
          polls |-> 0, statusCalls |-> 0, waited |-> 0,
          fetch |-> None, res |-> None, result |-> None, thrown |-> None]

Reject(call, thrown) == [call EXCEPT !.pc = "rejected", !.thrown = Some(thrown)]

\* variant: the loop never waits
LoopEndsAtOnce(operation) == TRUE

\* the while loop's test on a handle just received, and what follows the loop
LoopEnds(operation) == operation.done

\* variant: the loop gives up on the second handle that is not done
OnHandleGivesUp(call, operation) ==
    LET c == [call EXCEPT !.operation = Some(operation),
                          !.polls = IF operation.done THEN @ ELSE @ + 1]
    IN  IF ~LoopEnds(operation)
        THEN IF c.polls >= 2
             THEN Reject(c, [isError |-> TRUE, message |-> <<"Timed out">>])
             ELSE [c EXCEPT !.pc = "sleep"]
        ELSE LET t == Terminal(operation)
             IN  IF t.kind = "throw"
                 THEN Reject(c, [isError |-> TRUE, message |-> t.message])
                 ELSE [c EXCEPT !.pc = "fetch",
                                !.fetch = Some([url |-> t.url, video |-> t.video])]

OnHandle(call, operation) ==
    LET c == [call EXCEPT !.operation = Some(operation),
                          !.polls = IF operation.done THEN @ ELSE @ + 1]
    IN  IF ~LoopEnds(operation)
        THEN [c EXCEPT !.pc = "sleep"]
        ELSE LET t == Terminal(operation)
             IN  IF t.kind = "throw"
                 THEN Reject(c, [isError |-> TRUE, message |-> t.message])
                 ELSE [c EXCEPT !.pc = "fetch",
                                !.fetch = Some([url |-> t.url, video |-> t.video])]

\* the provider keeps a request pending for at most MaxPolls handles
MayReturn(call, operation) == operation.done \/ call.polls < MaxPolls

SetCall(i, c) ==
    /\ calls' = [calls EXCEPT ![i] = c]
    /\ UNCHANGED <<appVars, form, pending, nUserActs, nSubmitCalls, nEdits>>

\* ai.models.generateVideos resolves
SubmitReturns(i, operation) ==
    /\ calls[i].pc = "submit"
    /\ MayReturn(calls[i], operation)
    /\ SetCall(i, OnHandle(calls[i], operation))

\* ai.models.generateVideos rejects
SubmitRejects(i, thrown) ==
    /\ calls[i].pc = "submit"
    /\ SetCall(i, Reject(calls[i], thrown))

\* the 10 second timer fires and getVideosOperation is called
TimerFires(i) ==
    /\ calls[i].pc = "sleep"
    /\ SetCall(i, [calls[i] EXCEPT !.pc = "poll", !.waited = @ + POLL_INTERVAL_MS,
                                   !.statusCalls = @ + 1])

\* ai.operations.getVideosOperation resolves
PollReturns(i, operation) ==
    /\ calls[i].pc = "poll"
    /\ MayReturn(calls[i], operation)
    /\ SetCall(i, OnHandle(calls[i], operation))

\* ai.operations.getVideosOperation rejects
PollRejects(i, thrown) ==
    /\ calls[i].pc = "poll"
    /\ SetCall(i, Reject(calls[i], thrown))

\* variant: the body of any response is taken as the video
FetchReturnsIgnoresOk(i, res) ==
    /\ calls[i].pc = "fetch"
    /\ SetCall(i, [calls[i] EXCEPT !.res = Some(res), !.pc = "blob"])

\* fetch(finalUrl) resolves
FetchReturns(i, res) ==
    /\ calls[i].pc = "fetch"
    /\ SetCall(i, [calls[i] EXCEPT !.res = Some(res),
                                   !.pc = IF res.ok THEN "blob" ELSE "text"])

\* fetch(finalUrl) rejects
FetchRejects(i, thrown) ==
    /\ calls[i].pc = "fetch"
    /\ SetCall(i, Reject(calls[i], thrown))

\* res.text() resolves and the failure is thrown
TextRead(i) ==
    /\ calls[i].pc = "text"
    /\ SetCall(i, Reject(calls[i],
            [isError |-> TRUE, message |-> FetchFailedMessage(calls[i].res.val)]))

\* res.text() rejects: the rejection leaves generateVideo as it is
TextRejects(i, thrown) ==
    /\ calls[i].pc = "text"
    /\ SetCall(i, Reject(calls[i], thrown))

\* res.blob() rejects
BlobRejects(i, thrown) ==
    /\ calls[i].pc = "blob"
    /\ SetCall(i, Reject(calls[i], thrown))

\* res.blob() resolves and generateVideo returns
BlobRead(i) ==
    /\ calls[i].pc = "blob"
    /\ SetCall(i, [calls[i] EXCEPT
            !.pc = "resolved",
            !.result = Some([videoUrl |-> createObjectURL(calls[i].res.val.blob),
                             videoObject |-> calls[i].fetch.val.video,
                             videoBlob |-> calls[i].res.val.blob])])

\* ------------------------------------------------------------ App: what is rendered
\* <PromptForm> is rendered
FormShown == appState = IDLE

\* variant: the result view stays while a retry is loading
ResultShownWhileLoading == appState \in {SUCCESS, LOADING} /\ IsSome(videoUrl)

\* <VideoResult> (Retry, New Video, Extend) is rendered
ResultShown == appState = SUCCESS /\ IsSome(videoUrl)

\* renderError (Try Again) is rendered
ErrorShown ==
    \/ appState = SUCCESS /\ ~IsSome(videoUrl)
    \/ appState = ERROR /\ IsSome(errorDetails)

\* ------------------------------------------------------------ App: handlers
\* variant: the configuration submitted is not remembered
handleGenerateForgetsConfig(params) ==
    /\ appState' = LOADING
    /\ errorDetails' = None
    /\ clearImagesOnTryAgain' = FALSE
    /\ initialFormValues' = None
    /\ calls' = Append(calls, NewCall(params))
    /\ nSubmitCalls' = nSubmitCalls + (IF IsSome(NewCall(params).payload) THEN 1 ELSE 0)
    /\ form' = None
    /\ pending' = <<>>
    /\ UNCHANGED <<videoUrl, lastVideoObject, lastVideoBlob, lastConfig, nEdits>>

\* variant: the clear-media flag is left as the last request set it
handleGenerateKeepsFlag(params) ==
    /\ appState' = LOADING
    /\ errorDetails' = None
    /\ lastConfig' = Some(params)
    /\ initialFormValues' = None
    /\ calls' = Append(calls, NewCall(params))
    /\ nSubmitCalls' = nSubmitCalls + (IF IsSome(NewCall(params).payload) THEN 1 ELSE 0)
    /\ form' = None
    /\ pending' = <<>>
    /\ UNCHANGED <<videoUrl, lastVideoObject, lastVideoBlob, clearImagesOnTryAgain, nEdits>>

\* handleGenerate up to its await; the form is unmounted by the LOADING render
handleGenerate(params) ==
    /\ appState' = LOADING
    /\ errorDetails' = None
    /\ lastConfig' = Some(params)
    /\ clearImagesOnTryAgain' = FALSE
    /\ initialFormValues' = None
    /\ calls' = Append(calls, NewCall(params))
    /\ nSubmitCalls' = nSubmitCalls + (IF IsSome(NewCall(params).payload) THEN 1 ELSE 0)
    /\ form' = None
    /\ pending' = <<>>
    /\ UNCHANGED <<videoUrl, lastVideoObject, lastVideoBlob, nEdits>>

\* variant: the result is stored but the loading screen is never left
GenerateSucceededKeepsLoading(i) ==
    /\ calls[i].pc = "resolved"
    /\ videoUrl' = Some(calls[i].result.val.videoUrl)
    /\ lastVideoObject' = Some(calls[i].result.val.videoObject)
    /\ lastVideoBlob' = Some(calls[i].result.val.videoBlob)
    /\ appState' = appState
    /\ calls' = RemoveAt(calls, i)
    /\ form' = None
    /\ pending' = <<>>
    /\ UNCHANGED <<errorDetails, lastConfig, initialFormValues, clearImagesOnTryAgain,
                   nUserActs, nSubmitCalls, nEdits>>

\* handleGenerate after generateVideo has returned
GenerateSucceeded(i) ==
    /\ calls[i].pc = "resolved"
    /\ videoUrl' = Some(calls[i].result.val.videoUrl)
    /\ lastVideoObject' = Some(calls[i].result.val.videoObject)
    /\ lastVideoBlob' = Some(calls[i].result.val.videoBlob)
    /\ appState' = SUCCESS
    /\ calls' = RemoveAt(calls, i)
    /\ form' = None
    /\ pending' = <<>>
    /\ UNCHANGED <<errorDetails, lastConfig, initialFormValues, clearImagesOnTryAgain,
                   nUserActs, nSubmitCalls, nEdits>>

\* variant: the catch block swallows the failure and shows the form again
GenerateFailedSilently(i) ==
    /\ calls[i].pc = "rejected"
    /\ appState' = IDLE
    /\ errorDetails' = None
    /\ calls' = RemoveAt(calls, i)
    /\ form' = Some(MountForm(initialFormValues))
    /\ pending' = <<>>
    /\ UNCHANGED <<videoUrl, lastConfig, lastVideoObject, lastVideoBlob,
                   initialFormValues, clearImagesOnTryAgain, nUserActs, nSubmitCalls, nEdits>>

\* variant: the catch block submits the request again
GenerateFailedResubmits(i) ==
    /\ calls[i].pc = "rejected"
    /\ handleGenerate(calls[i].params)
    /\ UNCHANGED nUserActs

\* handleGenerate's catch block
GenerateFailed(i) ==
    /\ calls[i].pc = "rejected"
    /\ LET msg == errorMsgString(calls[i].thrown.val)
       IN  /\ errorDetails' = Some(ErrorDetailsFor(msg))
           /\ clearImagesOnTryAgain' = (clearImagesOnTryAgain \/ SetsClearImages(msg))
    /\ appState' = ERROR
    /\ calls' = RemoveAt(calls, i)
    /\ form' = None
    /\ pending' = <<>>
    /\ UNCHANGED <<videoUrl, lastConfig, lastVideoObject, lastVideoBlob,
                   initialFormValues, nUserActs, nSubmitCalls, nEdits>>

ClearMedia(config) ==
    [config EXCEPT !.startFrame = None, !.endFrame = None, !.referenceImages = <<>>,
                   !.styleImage = None, !.inputVideo = None]

\* variant: Retry drops the attached media
handleRetryCleared ==
    /\ ResultShown
    /\ nUserActs < MaxUserActs
    /\ IsSome(lastConfig)
    /\ handleGenerate(ClearMedia(lastConfig.val))
    /\ nUserActs' = nUserActs + 1

\* the Retry button of the result view
handleRetry ==
    /\ ResultShown
    /\ nUserActs < MaxUserActs
    /\ IsSome(lastConfig)
    /\ handleGenerate(lastConfig.val)
    /\ nUserActs' = nUserActs + 1

\* a render with appState = IDLE mounts a fresh form from initialFormValues
ShowForm(initialValues) ==
    /\ appState' = IDLE
    /\ initialFormValues' = initialValues
    /\ form' = Some(MountForm(initialValues))
    /\ pending' = <<>>

\* the New Video button of the result view
handleNewVideo ==
    /\ ResultShown
    /\ ShowForm(None)
    /\ videoUrl' = None
    /\ errorDetails' = None
    /\ lastConfig' = None
    /\ UNCHANGED <<lastVideoObject, lastVideoBlob, clearImagesOnTryAgain, calls,
                   nUserActs, nSubmitCalls, nEdits>>

\* the Try Again button of the error view
handleTryAgainFromError ==
    /\ ErrorShown
    /\ IF IsSome(lastConfig)
       THEN /\ ShowForm(IF clearImagesOnTryAgain
                        THEN Some(ClearMedia(lastConfig.val))
                        ELSE lastConfig)
            /\ errorDetails' = None
            /\ UNCHANGED <<videoUrl, lastConfig>>
       ELSE /\ ShowForm(None)
            /\ videoUrl' = None
            /\ errorDetails' = None
            /\ lastConfig' = None
    /\ UNCHANGED <<lastVideoObject, lastVideoBlob, clearImagesOnTryAgain, calls,
                   nUserActs, nSubmitCalls, nEdits>>

ExtendPrompt(prompt) ==
    <<"Continuing the story from: \"">> \o prompt \o <<"\"", "\n\n">>

ExtendValues(config, videoObject, videoBlob) ==
    [config EXCEPT
        !.mode = EXTEND_VIDEO,
        !.prompt = ExtendPrompt(config.prompt),
        !.videoObject = Some(videoObject),
        !.inputVideo = Some([file |-> [name |-> "last_video.mp4", type |-> videoBlob.type],
                             base64 |-> ""]),
        !.model = VEO,
        !.resolution = P720,
        !.duration = 7]

\* the Extend button of the result view
handleExtend ==
    /\ ResultShown
    /\ IsSome(lastConfig) /\ IsSome(lastVideoBlob) /\ IsSome(lastVideoObject)
    /\ ShowForm(Some(ExtendValues(lastConfig.val, lastVideoObject.val, lastVideoBlob.val)))
    /\ videoUrl' = None
    /\ errorDetails' = None
    /\ UNCHANGED <<lastConfig, lastVideoObject, lastVideoBlob, clearImagesOnTryAgain,
                   calls, nUserActs, nSubmitCalls, nEdits>>

\* ------------------------------------------------------------ PromptForm: user actions
FormStep(f) ==
    /\ nEdits < MaxEdits
    /\ form' = Some(f)
    /\ nEdits' = nEdits + 1
    /\ UNCHANGED <<appVars, pending, calls, nUserActs, nSubmitCalls>>

\* typing in the textarea
SetPrompt(p) ==
    /\ FormShown
    /\ form.val.prompt # p
    /\ FormStep([form.val EXCEPT !.prompt = p])

\* the Model select (disabled in references mode)
SetModel(m) ==
    /\ FormShown
    /\ form.val.generationMode # REFERENCES_TO_VIDEO
    /\ form.val.model # m
    /\ FormStep(ClampEffect([form.val EXCEPT !.model = m]))

\* the Aspect Ratio select (disabled in references mode)
SetAspectRatio(a) ==
    /\ FormShown
    /\ form.val.generationMode # REFERENCES_TO_VIDEO
    /\ form.val.aspectRatio # a
    /\ FormStep([form.val EXCEPT !.aspectRatio = a])

\* the Resolution select (disabled in references mode)
SetResolution(r) ==
    /\ FormShown
    /\ form.val.generationMode # REFERENCES_TO_VIDEO
    /\ form.val.resolution # r
    /\ FormStep([form.val EXCEPT !.resolution = r])

\* the duration slider, min 1, max maxDuration
SetDuration(d) ==
    /\ FormShown
    /\ d >= 1 /\ d <= maxDuration(form.val.model)
    /\ form.val.duration # d
    /\ FormStep(ClampEffect([form.val EXCEPT !.duration = d]))

handleSelectMode(mode) ==
    /\ FormShown
    /\ FormStep(ClampEffect(RefModeEffect(
            [form.val EXCEPT !.generationMode = mode, !.startFrame = None,
                             !.endFrame = None, !.referenceImages = <<>>,
                             !.styleImage = None, !.inputVideo = None,
                             !.isLooping = FALSE])))

\* ImageUpload.handleFileChange up to its await: the FileReaders start; only
\* the Add Reference input takes several files (multiple={true})
SelectFiles(target, files) ==
    /\ FormShown
    /\ UploadShown(form.val, target)
    /\ target = "refs" \/ Len(files) = 1
    /\ Len(pending) < MaxPending
    /\ nEdits < MaxEdits
    /\ pending' = Append(pending, [target |-> target, files |-> files])
    /\ nEdits' = nEdits + 1
    /\ UNCHANGED <<appVars, form, calls, nUserActs, nSubmitCalls>>

\* ImageUpload.handleFileChange after its await: onSelect(imageFiles)
FilesRead(k) ==
    /\ FormShown
    /\ k \in 1..Len(pending)
    /\ form' = Some(OnSelect(form.val, pending[k].target, pending[k].files))
    /\ pending' = RemoveAt(pending, k)
    /\ UNCHANGED <<appVars, calls, nUserActs, nSubmitCalls, nEdits>>

\* a FileReader fails: the catch block logs and nothing is selected
FilesUnreadable(k) ==
    /\ FormShown
    /\ k \in 1..Len(pending)
    /\ pending' = RemoveAt(pending, k)
    /\ UNCHANGED <<appVars, form, calls, nUserActs, nSubmitCalls, nEdits>>

\* the remove button of a shown image
RemoveStartFrame ==
    /\ FormShown
    /\ form.val.generationMode \in {IMAGE_TO_VIDEO, FRAMES_TO_VIDEO}
    /\ IsSome(form.val.startFrame)
    /\ FormStep(IF form.val.generationMode = FRAMES_TO_VIDEO
                THEN [form.val EXCEPT !.startFrame = None, !.isLooping = FALSE]
                ELSE [form.val EXCEPT !.startFrame = None])

RemoveEndFrame ==
    /\ FormShown
    /\ form.val.generationMode = FRAMES_TO_VIDEO
    /\ ~form.val.isLooping
    /\ IsSome(form.val.endFrame)
    /\ FormStep([form.val EXCEPT !.endFrame = None])

RemoveReference(index) ==
    /\ FormShown
    /\ form.val.generationMode = REFERENCES_TO_VIDEO
    /\ index \in 1..Len(form.val.referenceImages)
    /\ FormStep([form.val EXCEPT !.referenceImages = RemoveAt(@, index)])

RemoveStyleImage ==
    /\ FormShown
    /\ form.val.generationMode = REFERENCES_TO_VIDEO
    /\ IsSome(form.val.styleImage)
    /\ FormStep([form.val EXCEPT !.styleImage = None])

\* the loop checkbox, rendered while a start frame and no end frame is held
ToggleLooping ==
    /\ FormShown
    /\ form.val.generationMode = FRAMES_TO_VIDEO
    /\ IsSome(form.val.startFrame) /\ ~IsSome(form.val.endFrame)
    /\ FormStep([form.val EXCEPT !.isLooping = ~@])

\* the submit button
handleSubmit ==
    /\ FormShown
    /\ ~isSubmitDisabled(form.val)
    /\ nUserActs < MaxUserActs
    /\ handleGenerate(FormParams(form.val))
    /\ nUserActs' = nUserActs + 1

\* ------------------------------------------------------------ the application
Init ==
    /\ appState = IDLE
    /\ videoUrl = None
    /\ errorDetails = None
    /\ lastConfig = None
    /\ lastVideoObject = None
    /\ lastVideoBlob = None
    /\ initialFormValues = None
    /\ clearImagesOnTryAgain = FALSE
    /\ form = Some(MountForm(None))
    /\ pending = <<>>
    /\ calls = <<>>
    /\ nUserActs = 0
    /\ nSubmitCalls = 0
    /\ nEdits = 0

\* typing and the mode selector
EditNext ==
    \/ \E p \in UserPrompts : SetPrompt(p)
    \/ \E mode \in FormModes : handleSelectMode(mode)

\* the advanced settings panel (rendered while isSettingsOpen)
SettingsNext ==
    \/ \E m \in VeoModels : SetModel(m)
    \/ \E a \in AspectRatios : SetAspectRatio(a)
    \/ \E r \in Resolutions : SetResolution(r)
    \/ \E d \in UserDurations : SetDuration(d)

\* the remove buttons and the loop checkbox
RemoveNext ==
    \/ RemoveStartFrame
    \/ RemoveEndFrame
    \/ \E index \in 1..3 : RemoveReference(index)
    \/ RemoveStyleImage
    \/ ToggleLooping

\* the file inputs, the FileReaders running while the user goes on
AsyncUploadNext ==
    \/ \E t \in UploadTargets, files \in UserFileLists : SelectFiles(t, files)
    \/ \E k \in 1..Len(pending) : FilesRead(k)
    \/ \E k \in 1..Len(pending) : FilesUnreadable(k)

\* the provider, the timer and the steps of generateVideo that follow them
ServiceNext ==
    \/ \E i \in 1..Len(calls), h \in Handles : SubmitReturns(i, h)
    \/ \E i \in 1..Len(calls), e \in Rejections : SubmitRejects(i, e)
    \/ \E i \in 1..Len(calls) : TimerFires(i)
    \/ \E i \in 1..Len(calls), h \in Handles : PollReturns(i, h)
    \/ \E i \in 1..Len(calls), e \in Rejections : PollRejects(i, e)
    \/ \E i \in 1..Len(calls), r \in FetchResponses : FetchReturns(i, r)
    \/ \E i \in 1..Len(calls), e \in Rejections : FetchRejects(i, e)
    \/ \E i \in 1..Len(calls) : TextRead(i)
    \/ \E i \in 1..Len(calls), e \in Rejections : TextRejects(i, e)
    \/ \E i \in 1..Len(calls) : BlobRead(i)
    \/ \E i \in 1..Len(calls), e \in Rejections : BlobRejects(i, e)
    \/ \E i \in 1..Len(calls) : GenerateSucceeded(i)
    \/ \E i \in 1..Len(calls) : GenerateFailed(i)

AppNext ==
    \/ handleRetry
    \/ handleNewVideo
    \/ handleTryAgainFromError
    \/ handleExtend

\* the application: the user at the form and at the result and error
\* screens, the FileReaders, the provider, the timer and the fetch
Next ==
    \/ EditNext
    \/ SettingsNext
    \/ AsyncUploadNext
    \/ RemoveNext
    \/ handleSubmit
    \/ ServiceNext
    \/ AppNext

Spec == Init /\ [][Next]_vars

\* the application with its scheduling: a pending await is eventually settled
\* (the provider answers, a request is kept pending for at most MaxPolls
\* handles, the timer fires, the fetch and the body read settle) and the
\* continuation queued behind it is run; the user is under no obligation
SpecLive == Spec /\ WF_vars(ServiceNext)

\* ------------------------------------------------------------ generateVideo called on its own
AllModes == FormModes

\* start frame, end frame, loop flag, reference images, style image
MediaChoices ==
    {<<sf, ef, loop, <<>>, None>> :
        sf \in {None, Some(ImgA)}, ef \in {None, Some(ImgB)}, loop \in BOOLEAN}
    \cup {<<None, None, FALSE, refs, style>> :
        refs \in {<<ImgA>>, <<ImgA, ImgB>>}, style \in {None, Some(ImgB)}}

\* model, aspect ratio, resolution, duration
SettingChoices ==
    {<<VEO_FAST, PORTRAIT, P1080, 15>>, <<VEO, LANDSCAPE, P720, 30>>,
     <<VEO_FAST, LANDSCAPE, P720, 1>>}

ServiceParams ==
    {[prompt |-> p, model |-> s[1], aspectRatio |-> s[2], resolution |-> s[3],
      mode |-> mode, startFrame |-> m[1], endFrame |-> m[2],
      referenceImages |-> m[4], styleImage |-> m[5], inputVideo |-> None,
      isLooping |-> m[3], duration |-> s[4], videoObject |-> vo] :
        p \in UserPrompts, s \in SettingChoices, mode \in AllModes,
        m \in MediaChoices, vo \in {None, Some(VideoNoQuery)}}

\* handleGenerate(params) has just been called on a fresh application
InitService ==
    \E params \in ServiceParams :
        /\ appState = LOADING
        /\ videoUrl = None
        /\ errorDetails = None
        /\ lastConfig = Some(params)
        /\ lastVideoObject = None
        /\ lastVideoBlob = None
        /\ initialFormValues = None
        /\ clearImagesOnTryAgain = FALSE
        /\ form = None
        /\ pending = <<>>
        /\ calls = <<NewCall(params)>>
        /\ nUserActs = 1
        /\ nSubmitCalls = IF IsSome(NewCall(params).payload) THEN 1 ELSE 0
        /\ nEdits = 0

SpecService == InitService /\ [][ServiceNext]_vars

\* ------------------------------------------------------------ one form, looked at closely
\* requests an earlier form has submitted: a text request with the slow model
\* and the longest duration, a references request with three images, and a
\* looping frames request with no prompt
TextConfig ==
    FormParams([MountForm(None) EXCEPT !.prompt = <<"cat">>, !.model = VEO, !.duration = 30])

RefsConfig ==
    FormParams(RefModeEffect(
        [MountForm(None) EXCEPT !.generationMode = REFERENCES_TO_VIDEO,
                                !.prompt = <<"cat">>,
                                !.referenceImages = <<ImgA, ImgB, ImgA>>,
                                !.styleImage = Some(ImgB)]))

LoopConfig ==
    FormParams([MountForm(None) EXCEPT !.generationMode = FRAMES_TO_VIDEO,
                                       !.startFrame = Some(ImgA), !.isLooping = TRUE,
                                       !.resolution = P1080])

SubmittedConfigs == {TextConfig, RefsConfig, LoopConfig}

\* how the form on screen came to be mounted: at start-up, by Try Again after
\* a failure (with or without the media cleared), or by Extend after a result
FormStarts ==
    {[lastConfig |-> None, initialValues |-> None, video |-> None, blob |-> None,
      clear |-> FALSE, acts |-> 0]}
    \cup {[lastConfig |-> Some(c), initialValues |-> Some(c), video |-> None,
           blob |-> None, clear |-> FALSE, acts |-> 1] : c \in SubmittedConfigs}
    \cup {[lastConfig |-> Some(c), initialValues |-> Some(ClearMedia(c)), video |-> None,
           blob |-> None, clear |-> TRUE, acts |-> 1] : c \in SubmittedConfigs}
    \cup {[lastConfig |-> Some(c),
           initialValues |->
              Some(ExtendValues(c, VideoNoQuery, [type |-> "video/mp4", data |-> "V"])),
           video |-> Some(VideoNoQuery),
           blob |-> Some([type |-> "video/mp4", data |-> "V"]),
           clear |-> FALSE, acts |-> 1] :
              c \in SubmittedConfigs}

InitForm ==
    \E s \in FormStarts :
        /\ appState = IDLE
        /\ videoUrl = None
        /\ errorDetails = None
        /\ lastConfig = s.lastConfig
        /\ lastVideoObject = s.video
        /\ lastVideoBlob = s.blob
        /\ initialFormValues = s.initialValues
        /\ clearImagesOnTryAgain = s.clear
        /\ form = Some(MountForm(s.initialValues))
        /\ pending = <<>>
        /\ calls = <<>>
        /\ nUserActs = s.acts
        /\ nSubmitCalls = s.acts
        /\ nEdits = 0

\* the form on its own; the run ends with the request handed to handleGenerate
FormNext ==
    \/ EditNext
    \/ SettingsNext
    \/ AsyncUploadNext
    \/ RemoveNext
    \/ handleSubmit

SpecForm == InitForm /\ [][FormNext]_vars

\* ============================================================ properties

\* the inputs a mode requires, as the contract lists them
RequiredInputsPresent(params) ==
    CASE params.mode = TEXT_TO_VIDEO -> Trim(params.prompt) # <<>>
      [] params.mode = IMAGE_TO_VIDEO -> IsSome(params.startFrame)
      [] params.mode = FRAMES_TO_VIDEO -> IsSome(params.startFrame)
      [] params.mode = REFERENCES_TO_VIDEO ->
            Len(params.referenceImages) >= 1 /\ Trim(params.prompt) # <<>>
      [] params.mode = EXTEND_VIDEO ->
            IsSome(params.videoObject) /\ Trim(params.prompt) # <<>>
      [] OTHER -> TRUE

\* C1: in the application (form submit, Retry), a request whose mode-required
\* inputs are absent never has a payload handed to ai.models.generateVideos:
\* every invocation that reached the submission call has its required inputs,
\* and an invocation without them is already rejected.
C1_RequiredInputsBeforeSubmission ==
    \A i \in 1..Len(calls) :
        /\ IsSome(calls[i].payload) => RequiredInputsPresent(calls[i].params)
        /\ ~RequiredInputsPresent(calls[i].params) =>
              calls[i].pc = "rejected" /\ ~IsSome(calls[i].operation)

C1_Witness ==
    \E i \in 1..Len(calls) :
        /\ ~RequiredInputsPresent(calls[i].params)
        /\ calls[i].pc = "rejected"
        /\ ~IsSome(calls[i].payload)
        /\ nSubmitCalls < nUserActs

\* C2: at most one generateVideo invocation exists at a time; while one does,
\* the application is LOADING with no form, result view or error view
\* rendered, and the only step that changes appState is that invocation's
\* completion (its resolution or rejection being consumed by handleGenerate).
C2_SingleFlight ==
    /\ [](/\ Len(calls) <= 1
          /\ (calls # <<>> =>
                /\ appState = LOADING
                /\ form = None))
    /\ [][(calls # <<>> /\ appState' # appState) =>
            /\ calls[1].pc \in {"resolved", "rejected"}
            /\ calls' = <<>>
            /\ appState' = (IF calls[1].pc = "resolved" THEN SUCCESS ELSE ERROR)]_vars

C2_Witness ==
    /\ Len(calls) = 1
    /\ calls[1].pc = "poll"
    /\ appState = LOADING
    /\ IsSome(videoUrl)
    /\ nUserActs = 2

\* a handle that is done, has no error and whose first result has a URI
GoodHandle(operation) ==
    /\ operation.done
    /\ ~IsSome(operation.error)
    /\ IsSome(operation.response)
    /\ IsSome(operation.response.val.generatedVideos)
    /\ Len(operation.response.val.generatedVideos.val) >= 1
    /\ IsSome(operation.response.val.generatedVideos.val[1].video)
    /\ IsSome(operation.response.val.generatedVideos.val[1].video.val.uri)
    /\ operation.response.val.generatedVideos.val[1].video.val.uri.val # <<>>

\* C3: generateVideo fetches media and returns only after a done=true handle;
\* after done=false handles followed by a good done=true handle and an ok
\* fetch it returns the first result's descriptor and the fetched content
\* and does not raise, unless the fetch or the reading of its body was
\* itself rejected; it raises on a handle that is not done only when the
\* status call itself was rejected.
C3_ReturnsAfterDone ==
    \A i \in 1..Len(calls) :
        LET c == calls[i]
        IN  /\ c.pc \in {"fetch", "text", "blob", "resolved"} =>
                  IsSome(c.operation) /\ c.operation.val.done
            /\ c.pc = "resolved" =>
                  /\ GoodHandle(c.operation.val)
                  /\ c.result.val.videoObject =
                        c.operation.val.response.val.generatedVideos.val[1].video.val
                  /\ c.result.val.videoBlob = c.res.val.blob
                  /\ c.result.val.videoUrl = <<"blob:", c.res.val.blob.data>>
            /\ (IsSome(c.operation) /\ GoodHandle(c.operation.val)) =>
                  \/ c.pc \in {"fetch", "blob", "resolved"}
                  \/ c.pc = "text" /\ ~c.res.val.ok
                  \/ /\ c.pc = "rejected"
                     /\ IsSome(c.fetch)
                     /\ (~IsSome(c.res) \/ c.res.val.ok) => c.thrown.val \in Rejections
            /\ (c.pc = "rejected" /\ IsSome(c.operation) /\ ~c.operation.val.done) =>
                  c.thrown.val \in Rejections

C3_Witness ==
    \E i \in 1..Len(calls) :
        /\ calls[i].pc = "resolved"
        /\ calls[i].polls >= 1
        /\ GoodHandle(calls[i].operation.val)

\* C4: when the done handle carries an error {message M, code C}, generateVideo
\* has failed and the failure message contains M and the digits of C.
C4_ErrorMessageAndCode ==
    \A i \in 1..Len(calls) :
        LET c == calls[i]
        IN  (IsSome(c.operation) /\ c.operation.val.done /\ IsSome(c.operation.val.error)) =>
                /\ c.pc = "rejected"
                /\ c.thrown.val.isError
                /\ Contains(c.thrown.val.message, c.operation.val.error.val.message)
                /\ Contains(c.thrown.val.message, IntToStr(c.operation.val.error.val.code))

C4_Witness ==
    \E i \in 1..Len(calls) :
        /\ calls[i].pc = "rejected"
        /\ IsSome(calls[i].operation)
        /\ calls[i].operation.val = DoneError(<<"X">>, 7)
        /\ calls[i].thrown.val.message =
              <<"Video generation failed: ", "X", " (Code: ", "7", ")">>

\* a done handle with no error, no generated video and at least one safety reason
FilteredHandle(operation) ==
    /\ operation.done
    /\ ~IsSome(operation.error)
    /\ IsSome(operation.response)
    /\ (IsSome(operation.response.val.generatedVideos) =>
            operation.response.val.generatedVideos.val = <<>>)
    /\ IsSome(operation.response.val.raiMediaFilteredReasons)
    /\ operation.response.val.raiMediaFilteredReasons.val # <<>>

\* C5: on a done handle with no error, zero videos and a non-empty list of
\* safety reasons, generateVideo has failed and the failure message contains
\* every listed reason.
C5_SafetyReasonsInMessage ==
    \A i \in 1..Len(calls) :
        LET c == calls[i]
        IN  (IsSome(c.operation) /\ FilteredHandle(c.operation.val)) =>
                /\ c.pc = "rejected"
                /\ \A k \in 1..Len(c.operation.val.response.val.raiMediaFilteredReasons.val) :
                      Contains(c.thrown.val.message,
                               c.operation.val.response.val.raiMediaFilteredReasons.val[k])

C5_Witness ==
    \E i \in 1..Len(calls) :
        /\ calls[i].pc = "rejected"
        /\ IsSome(calls[i].operation)
        /\ FilteredHandle(calls[i].operation.val)
        /\ Len(calls[i].operation.val.response.val.raiMediaFilteredReasons.val) = 2

\* C6: whenever handleGenerate's catch block consumes a failure whose text
\* contains "RESOURCE_EXHAUSTED" or "exceeded your current quota", it ends
\* in ERROR with the 'Quota Exceeded' details, whatever else the text holds.
C6_QuotaClassification ==
    [][(/\ calls # <<>>
        /\ calls[1].pc = "rejected"
        /\ calls' = Tail(calls)
        /\ \/ Contains(errorMsgString(calls[1].thrown.val), <<"RESOURCE_EXHAUSTED">>)
           \/ Contains(errorMsgString(calls[1].thrown.val),
                       <<"exceeded your current quota">>))
       => (/\ appState' = ERROR
           /\ IsSome(errorDetails')
           /\ errorDetails'.val.title = "Quota Exceeded"
           /\ errorDetails'.val.title # "Error")]_vars

C6_Witness ==
    /\ appState = ERROR
    /\ IsSome(errorDetails)
    /\ errorDetails.val.title = "Quota Exceeded"
    /\ IsSome(lastConfig)
    /\ calls = <<>>

\* C7: Retry hands handleGenerate the last submitted request unchanged, field
\* for field; Try Again prepopulates the form with the last submitted
\* request, so that submitting it as it stands resubmits the same request,
\* except after a policy rejection, when exactly the media attachments are
\* cleared and every other field is the last submitted one.
C7_RetryResubmitsLastConfig ==
    [][/\ (appState = SUCCESS /\ appState' = LOADING) =>
            /\ lastConfig' = lastConfig
            /\ calls'[Len(calls')].params = lastConfig.val
       /\ (appState = ERROR /\ appState' = IDLE /\ IsSome(lastConfig)) =>
            /\ lastConfig' = lastConfig
            /\ FormParams(form'.val) = initialFormValues'.val
            /\ (~clearImagesOnTryAgain => initialFormValues' = lastConfig)
            /\ (clearImagesOnTryAgain =>
                  initialFormValues'.val =
                     [lastConfig.val EXCEPT !.startFrame = None, !.endFrame = None,
                                            !.referenceImages = <<>>,
                                            !.styleImage = None, !.inputVideo = None])]_vars

C7_Witness ==
    /\ appState = LOADING
    /\ nUserActs = 2
    /\ IsSome(videoUrl)
    /\ Len(calls) = 1
    /\ calls[1].params = lastConfig.val
    /\ IsSome(lastConfig.val.startFrame)

\* C8: in frames-to-video mode with the loop flag set and no end image, the
\* payload's config.lastFrame is the payload's image: the start frame's
\* encoded content and media type.
C8_LoopReusesStartFrame ==
    \A i \in 1..Len(calls) :
        LET c == calls[i]
        IN  (/\ IsSome(c.payload)
             /\ c.params.mode = FRAMES_TO_VIDEO
             /\ c.params.isLooping
             /\ ~IsSome(c.params.endFrame)) =>
                /\ c.payload.val.config.lastFrame = c.payload.val.image
                /\ IsSome(c.params.startFrame) =>
                      c.payload.val.config.lastFrame =
                         Some([imageBytes |-> c.params.startFrame.val.base64,
                               mimeType |-> c.params.startFrame.val.file.type])

C8_Witness ==
    \E i \in 1..Len(calls) :
        /\ IsSome(calls[i].payload)
        /\ calls[i].params.mode = FRAMES_TO_VIDEO
        /\ calls[i].params.isLooping
        /\ ~IsSome(calls[i].params.endFrame)
        /\ IsSome(calls[i].params.startFrame)
        /\ IsSome(calls[i].payload.val.config.lastFrame)

\* C9: the prompt of every payload handed to the provider contains the
\* digits of the payload's target duration, also when the user's prompt is
\* empty or whitespace.
C9_PromptCarriesDuration ==
    \A i \in 1..Len(calls) :
        IsSome(calls[i].payload) =>
            /\ Contains(calls[i].payload.val.prompt,
                        IntToStr(calls[i].payload.val.config.durationSecs))
            /\ (calls[i].params.mode # EXTEND_VIDEO =>
                  calls[i].payload.val.config.durationSecs = calls[i].params.duration)

C9_Witness ==
    \E i \in 1..Len(calls) :
        /\ IsSome(calls[i].payload)
        /\ calls[i].params.prompt = <<" ">>
        /\ calls[i].params.duration = 30
        /\ Contains(calls[i].payload.val.prompt, <<"3", "0">>)

\* C10: a call of ai.models.generateVideos happens only in a step in which
\* the user submits the form or clicks Retry, one call per such step: the
\* calls never outnumber the user's actions and nothing resubmits after a
\* failure.
C10_NoAutomaticRetry ==
    /\ [](nSubmitCalls <= nUserActs)
    /\ [][nSubmitCalls' # nSubmitCalls =>
            /\ nSubmitCalls' = nSubmitCalls + 1
            /\ nUserActs' = nUserActs + 1]_vars

C10_Witness ==
    /\ appState = ERROR
    /\ calls = <<>>
    /\ nSubmitCalls = 1
    /\ nUserActs = 1

\* C11: a failed invocation of generateVideo (whatever made it fail) is
\* consumed by handleGenerate's catch block and by nothing else: the step that
\* consumes it ends in ERROR with errorDetails set, such a step is possible
\* whenever a failed invocation exists, and ERROR is never shown without
\* errorDetails.
C11_FailuresSurfaced ==
    /\ [](/\ appState = ERROR => IsSome(errorDetails)
          /\ \A i \in 1..Len(calls) :
                calls[i].pc = "rejected" =>
                    /\ IsSome(calls[i].thrown)
                    /\ appState = LOADING
                    /\ ENABLED GenerateFailed(i))
    /\ [][(calls # <<>> /\ calls[1].pc = "rejected" /\ calls' # calls) =>
            /\ calls' = Tail(calls)
            /\ appState' = ERROR
            /\ IsSome(errorDetails')]_vars

C11_Witness ==
    /\ appState = ERROR
    /\ calls = <<>>
    /\ IsSome(errorDetails)
    /\ errorDetails.val.title = "Error"
    /\ errorDetails.val.message.text =
          <<"Video generation failed: ", "Failed to fetch video: ", "4", "0", "3", " ",
            "Forbidden">>

\* the fixed settings of references-to-video mode
RefsPinned(model, aspectRatio, resolution) ==
    model = VEO /\ aspectRatio = LANDSCAPE /\ resolution = P720

\* C12: the form in references-to-video mode holds model VEO, aspect ratio
\* LANDSCAPE and resolution 720p, and so does every request submitted in
\* that mode and the payload built from it, whatever was selected in another
\* mode before and whatever the form was prepopulated with.
C12_ReferencesModePinned ==
    /\ (IsSome(form) /\ form.val.generationMode = REFERENCES_TO_VIDEO) =>
            RefsPinned(form.val.model, form.val.aspectRatio, form.val.resolution)
    /\ \A i \in 1..Len(calls) :
          LET c == calls[i]
          IN  c.params.mode = REFERENCES_TO_VIDEO =>
                /\ RefsPinned(c.params.model, c.params.aspectRatio, c.params.resolution)
                /\ IsSome(c.payload)
                /\ RefsPinned(c.payload.val.model, c.payload.val.config.aspectRatio,
                              c.payload.val.config.resolution)

\* a references request submitted from a prepopulated form whose duration
\* the user had moved to 1 second
C12_Witness ==
    /\ lastConfig # None
    /\ Len(calls) = 1
    /\ calls[1].params.mode = REFERENCES_TO_VIDEO
    /\ IsSome(calls[1].payload)
    /\ nUserActs = 2
    /\ ~IsSome(lastVideoObject)
    /\ calls[1].params.duration = 1

\* C13: every payload built for an extend-video request has model VEO,
\* resolution 720p, durationSecs 7, a prompt that opens "A 7 second video of:"
\* and the request's video object, whatever model, resolution and duration
\* the request names; an extend request without a payload is rejected.
C13_ExtendPayloadFixed ==
    \A i \in 1..Len(calls) :
        LET c == calls[i]
        IN  c.params.mode = EXTEND_VIDEO =>
              IF IsSome(c.payload)
              THEN /\ c.payload.val.model = VEO
                   /\ c.payload.val.config.resolution = P720
                   /\ c.payload.val.config.durationSecs = 7
                   /\ SubSeq(c.payload.val.prompt, 1, 3) = <<"A ", "7", " second video of: ">>
                   /\ c.payload.val.video = c.params.videoObject
                   /\ IsSome(c.params.videoObject)
              ELSE c.pc = "rejected"

C13_Witness ==
    \E i \in 1..Len(calls) :
        /\ calls[i].params.mode = EXTEND_VIDEO
        /\ IsSome(calls[i].payload)
        /\ calls[i].params.model = VEO_FAST
        /\ calls[i].params.resolution = P1080
        /\ calls[i].params.duration = 15
        /\ calls[i].payload.val.config.durationSecs = 7

\* the validation conditions of a form state
MissingAttachment(f) ==
    \/ f.generationMode \in {IMAGE_TO_VIDEO, FRAMES_TO_VIDEO} /\ ~IsSome(f.startFrame)
    \/ f.generationMode = REFERENCES_TO_VIDEO /\ Len(f.referenceImages) = 0

MissingPrompt(f) ==
    f.generationMode \in {TEXT_TO_VIDEO, REFERENCES_TO_VIDEO} /\ Trim(f.prompt) = <<>>

\* the reasons by the condition they report
AttachmentReasons ==
    {"A source image is required.", "A start frame is required.",
     "At least one reference image is required."}
PromptReasons == {"Please enter a prompt."}
BothReasons == {"Please add reference image(s) and enter a prompt."}
NoHandleReason == <<"Video object is required for Extend Video mode.">>
ExtendPromptReason ==
    <<"A prompt is required to describe what happens next in the video extension.">>

\* the extend requests generateVideo may be handed
ExtendParams == {p \in ServiceParams : p.mode = EXTEND_VIDEO}

\* what generateVideo throws for each extend request
ExtendReasonsTellCondition ==
    \A p \in ExtendParams :
        /\ ValidationError(p) = Some(NoHandleReason) <=> ~IsSome(p.videoObject)
        /\ ValidationError(p) = Some(ExtendPromptReason) <=>
              (IsSome(p.videoObject) /\ Trim(p.prompt) = <<>>)
        /\ ValidationError(p) = None <=>
              (IsSome(p.videoObject) /\ Trim(p.prompt) # <<>>)

\* C14: the reason the form shows tells which validation conditions hold: an
\* attachment reason exactly when only the attachment is missing, the prompt
\* reason exactly when only the prompt is missing, the combined reason
\* exactly when both are, and the button is disabled exactly when one is.
\* generateVideo rejects an extend request without a video object with one
\* message and, when the object is there, a blank prompt with another; no
\* two of these reasons coincide, and a rejected request has no payload.
C14_DistinctValidationReasons ==
    /\ IsSome(form) =>
          LET f == form.val
          IN  /\ isSubmitDisabled(f) <=> (MissingAttachment(f) \/ MissingPrompt(f))
              /\ tooltipText(f) \in AttachmentReasons <=>
                    (MissingAttachment(f) /\ ~MissingPrompt(f))
              /\ tooltipText(f) \in PromptReasons <=>
                    (MissingPrompt(f) /\ ~MissingAttachment(f))
              /\ tooltipText(f) \in BothReasons <=>
                    (MissingPrompt(f) /\ MissingAttachment(f))
              /\ tooltipText(f) = "" <=> ~isSubmitDisabled(f)
    /\ \A i \in 1..Len(calls) :
          LET c == calls[i]
          IN  /\ IsSome(ValidationError(c.params)) <=> ~IsSome(c.payload)
              /\ ~IsSome(c.payload) =>
                    /\ c.pc = "rejected"
                    /\ c.thrown.val.message = ValidationError(c.params).val
                    /\ c.params.mode = EXTEND_VIDEO
    /\ ExtendReasonsTellCondition
    /\ AttachmentReasons \cap PromptReasons = {}
    /\ (AttachmentReasons \cup PromptReasons) \cap BothReasons = {}
    /\ NoHandleReason # ExtendPromptReason

\* the references form with a prompt and no image shows the attachment reason
C14_Witness ==
    /\ IsSome(form)
    /\ form.val.generationMode = REFERENCES_TO_VIDEO
    /\ isSubmitDisabled(form.val)
    /\ tooltipText(form.val) = "At least one reference image is required."
    /\ form.val.prompt = <<"cat">>

\* the ASSET entries of a payload's config.referenceImages
AssetCount(payload) ==
    IF IsSome(payload.config.referenceImages)
    THEN Cardinality({k \in 1..Len(payload.config.referenceImages.val) :
                        payload.config.referenceImages.val[k].referenceType = "ASSET"})
    ELSE 0

\* C15: whatever reference images are selected (one or several files at a
\* time, the reads completing in any order) and removed, the form holds at
\* most 3 reference images, and every request submitted in
\* references-to-video mode carries 1 to 3 of them, all of them in its payload.
C15_AtMostThreeReferences ==
    /\ IsSome(form) => Len(form.val.referenceImages) <= 3
    /\ \A i \in 1..Len(calls) :
          LET c == calls[i]
          IN  /\ Len(c.params.referenceImages) <= 3
              /\ c.params.mode = REFERENCES_TO_VIDEO =>
                    /\ Len(c.params.referenceImages) >= 1
                    /\ IsSome(c.payload)
                    /\ AssetCount(c.payload.val) = Len(c.params.referenceImages)

\* a request with three images, the third being the first file of a
\* two-file selection that was cut to the space left
C15_Witness ==
    /\ Len(calls) = 1
    /\ calls[1].params.mode = REFERENCES_TO_VIDEO
    /\ calls[1].params.referenceImages = <<ImgB, ImgA, ImgB>>
    /\ IsSome(calls[1].payload)

\* C16: while the error view is shown the clear-media flag is set exactly
\* when the failure shown is the content-safety one, and it is never set while
\* a request is loading; Try Again after a content-safety failure mounts the
\* form with the last request minus its five media fields, and after any
\* other failure with the last request as it was.
C16_TryAgainClearsMediaAfterPolicyOnly ==
    /\ [](/\ appState = LOADING => ~clearImagesOnTryAgain
          /\ (appState = ERROR /\ IsSome(errorDetails)) =>
                (clearImagesOnTryAgain <=> errorDetails.val.title = PolicyTitle))
    /\ [][(appState = ERROR /\ appState' = IDLE /\ IsSome(lastConfig)) =>
            /\ IsSome(form')
            /\ form'.val = InitialForm(initialFormValues')
            /\ IF errorDetails.val.title = PolicyTitle
               THEN /\ initialFormValues'.val.startFrame = None
                    /\ initialFormValues'.val.endFrame = None
                    /\ initialFormValues'.val.referenceImages = <<>>
                    /\ initialFormValues'.val.styleImage = None
                    /\ initialFormValues'.val.inputVideo = None
                    /\ \A k \in {"prompt", "model", "aspectRatio", "resolution", "mode",
                                 "isLooping", "duration", "videoObject"} :
                          initialFormValues'.val[k] = lastConfig.val[k]
               ELSE initialFormValues' = lastConfig]_vars

\* the form after Try Again on a policy warning: the last request had a
\* start frame, the form has none
C16_Witness ==
    /\ appState = IDLE
    /\ IsSome(lastConfig)
    /\ IsSome(lastConfig.val.startFrame)
    /\ IsSome(initialFormValues)
    /\ ~IsSome(initialFormValues.val.startFrame)
    /\ IsSome(form)
    /\ ~IsSome(form.val.startFrame)
    /\ form.val.generationMode = lastConfig.val.mode

\* the four user-facing categories, told apart by the details that are shown
ShownAsQuota(d) == d.title = "Quota Exceeded" /\ d.type = "error"
ShownAsSafety(d) == d.title = PolicyTitle /\ d.type = "warning"
ShownAsCredential(d) ==
    /\ d.title = "Error" /\ d.type = "error"
    /\ d.message.text =
          <<"Video generation failed due to an API key or permission issue. Please check if the API key is valid and has the required permissions.">>
ShownAsGeneric(d, msg) ==
    /\ d.title = "Error" /\ d.type = "error"
    /\ d.message.text = <<"Video generation failed: ">> \o msg

\* the patterns of the first three categories
QuotaPattern(msg) ==
    Contains(msg, <<"exceeded your current quota">>) \/ Contains(msg, <<"RESOURCE_EXHAUSTED">>)
SafetyPattern(msg) == Contains(msg, <<"The model did not generate a video">>)
CredentialPattern(msg) ==
    \/ Contains(msg, <<"API_KEY_INVALID">>)
    \/ Contains(msg, <<"API key not valid">>)
    \/ Contains(ToLowerCase(msg), <<"permission denied">>)
    \/ Contains(msg, <<"Requested entity was not found.">>)

\* C17: the step in which handleGenerate's catch block consumes a failure
\* shows it in exactly one of the four categories quota, content-safety,
\* credential/permission and generic; a failure that matches only the
\* credential patterns shows the fixed credential text, which does not
\* contain the failure text, and a failure that matches no pattern shows
\* 'Video generation failed: ' followed by the failure text.
C17_FourCategories ==
    [][(calls # <<>> /\ calls[1].pc = "rejected" /\ calls' = Tail(calls)) =>
        LET msg == errorMsgString(calls[1].thrown.val)
            d == errorDetails'.val
            shown == {k \in {"quota", "safety", "credential", "generic"} :
                        \/ k = "quota" /\ ShownAsQuota(d)
                        \/ k = "safety" /\ ShownAsSafety(d)
                        \/ k = "credential" /\ ShownAsCredential(d)
                        \/ k = "generic" /\ ShownAsGeneric(d, msg)}
        IN  /\ IsSome(errorDetails')
            /\ Cardinality(shown) = 1
            /\ (~QuotaPattern(msg) /\ ~SafetyPattern(msg) /\ CredentialPattern(msg)) =>
                  (ShownAsCredential(d) /\ ~Contains(d.message.text, msg))
            /\ (~QuotaPattern(msg) /\ ~SafetyPattern(msg) /\ ~CredentialPattern(msg)) =>
                  ShownAsGeneric(d, msg)
            /\ ShownAsQuota(d) => QuotaPattern(msg)
            /\ ShownAsSafety(d) => SafetyPattern(msg)
            /\ ShownAsCredential(d) => CredentialPattern(msg)]_vars

\* a provider error 'Permission Denied' shown as the credential problem
C17_Witness ==
    /\ appState = ERROR
    /\ calls = <<>>
    /\ IsSome(errorDetails)
    /\ ShownAsCredential(errorDetails.val)
    /\ lastConfig.val.mode = IMAGE_TO_VIDEO

\* a URI token that opens a query string
IsQueryToken(t) == t \in {"?alt=media"}

HasQuery(uri) == \E k \in 1..Len(uri) : IsQueryToken(uri[k])

\* the URI with the credential as a query parameter: joined with '&' to an
\* existing query, opened with '?' otherwise
WithKeyParameter(uri) ==
    IF HasQuery(uri) THEN uri \o <<"&key=", API_KEY>> ELSE uri \o <<"?key=", API_KEY>>

\* C18: the URL generateVideo fetches is the first result's URI with the API
\* credential as a well-formed query parameter, both when the URI already has
\* a query string and when it has none.
C18_KeyIsQueryParameter ==
    \A i \in 1..Len(calls) :
        IsSome(calls[i].fetch) =>
            calls[i].fetch.val.url = WithKeyParameter(calls[i].fetch.val.video.uri.val)

\* a fetch for a URI without a query string
C18_Witness ==
    \E i \in 1..Len(calls) :
        /\ IsSome(calls[i].fetch)
        /\ ~HasQuery(calls[i].fetch.val.video.uri.val)
        /\ calls[i].fetch.val.url = <<"https://v/2", "&key=", API_KEY>>

\* C19: generateVideo has called getVideosOperation once for each handle it
\* has seen with done unset (the call for the latest one still to come while
\* its timer runs), each call after one wait of 10000 ms; a submission that
\* returns a done handle is followed by no status call; after a done handle
\* the handle and the counts no longer change; and the loop stops on a handle
\* that is not done only when a status call was rejected.
C19_OneStatusCallPerPendingHandle ==
    /\ [](\A i \in 1..Len(calls) :
            LET c == calls[i]
            IN  /\ c.waited = 10000 * c.statusCalls
                /\ c.pc = "submit" => (c.polls = 0 /\ c.statusCalls = 0)
                /\ c.pc = "sleep" =>
                      (~c.operation.val.done /\ c.statusCalls = c.polls - 1)
                /\ c.pc = "poll" =>
                      (~c.operation.val.done /\ c.statusCalls = c.polls /\ c.polls >= 1)
                /\ (IsSome(c.operation) /\ c.operation.val.done) =>
                      (c.statusCalls = c.polls /\ c.pc \notin {"submit", "sleep", "poll"})
                /\ (IsSome(c.operation) /\ ~c.operation.val.done
                        /\ c.pc \notin {"sleep", "poll"}) =>
                      (c.pc = "rejected" /\ c.thrown.val \in Rejections
                        /\ c.statusCalls = c.polls))
    /\ [][\A i \in 1..Len(calls) :
            (IsSome(calls[i].operation) /\ calls[i].operation.val.done
                /\ Len(calls') = Len(calls)) =>
              /\ calls'[i].operation = calls[i].operation
              /\ calls'[i].statusCalls = calls[i].statusCalls
              /\ calls'[i].waited = calls[i].waited]_vars

\* two handles that were not done, two status calls, 20 seconds waited, and
\* the result returned
C19_Witness ==
    \E i \in 1..Len(calls) :
        /\ calls[i].pc = "resolved"
        /\ calls[i].polls = 2
        /\ calls[i].statusCalls = 2
        /\ calls[i].waited = 20000

\* C20: with the provider eventually returning a done handle and the fetch
\* settling, every invocation of generateVideo eventually resolves or rejects
\* and the loading screen is eventually replaced by the result or the error
\* screen; and appState leaves LOADING only by the continuation of a resolved
\* invocation (to SUCCESS) or of a rejected one (to ERROR).
C20_LoadingEndsInOutcome ==
    /\ (appState = LOADING) ~> (appState \in {SUCCESS, ERROR})
    /\ (\E i \in 1..Len(calls) : calls[i].pc \notin {"resolved", "rejected"})
          ~> (\E i \in 1..Len(calls) : calls[i].pc \in {"resolved", "rejected"})
    /\ [][(appState = LOADING /\ appState' # LOADING) =>
            \E i \in 1..Len(calls) :
                /\ Len(calls') = Len(calls) - 1
                /\ \/ calls[i].pc = "resolved" /\ appState' = SUCCESS
                   \/ calls[i].pc = "rejected" /\ appState' = ERROR]_vars

\* a second request of the session, resubmitted after a failure, has been
\* polled twice and has ended on the result screen
C20_Witness ==
    /\ appState = SUCCESS
    /\ nUserActs = 2
    /\ nSubmitCalls = 2
    /\ calls = <<>>
    /\ IsSome(errorDetails) = FALSE
    /\ IsSome(videoUrl)

\* a done handle without error whose response has no generated video and no
\* safety reason (the list absent or empty)
EmptyHandle(operation) ==
    /\ operation.done
    /\ ~IsSome(operation.error)
    /\ IsSome(operation.response)
    /\ LET videos == operation.response.val.generatedVideos
           raiReasons == operation.response.val.raiMediaFilteredReasons
       IN  /\ ~IsSome(videos) \/ videos.val = <<>>
           /\ ~IsSome(raiReasons) \/ raiReasons.val = <<>>

\* C21: an invocation whose terminal handle has no error, no generated video
\* and no safety reason is rejected with the generic "did not generate a
\* video" message, and has made no fetch.
C21_NoVideoNoReasonGeneric ==
    \A i \in 1..Len(calls) :
        (IsSome(calls[i].operation) /\ EmptyHandle(calls[i].operation.val)) =>
            /\ calls[i].pc = "rejected"
            /\ calls[i].thrown = Some([isError |-> TRUE, message |-> NoVideoMessage])
            /\ calls[i].fetch = None
            /\ calls[i].res = None

\* after one pending handle the provider returned an empty video list with an
\* empty reasons list, and the invocation was rejected
C21_Witness ==
    \E i \in 1..Len(calls) :
        /\ calls[i].pc = "rejected"
        /\ calls[i].polls = 1
        /\ calls[i].operation = Some(DoneResponse(Some(<<>>), Some(<<>>)))

\* a done handle without error whose response has a first result with no
\* location
NoLocationHandle(operation) ==
    /\ operation.done
    /\ ~IsSome(operation.error)
    /\ IsSome(operation.response)
    /\ IsSome(operation.response.val.generatedVideos)
    /\ Len(operation.response.val.generatedVideos.val) > 0
    /\ ~HasUri(operation.response.val.generatedVideos.val[1])

\* C22: an invocation whose terminal handle has no error and a first result
\* without a URI is rejected with "Generated video is missing a URI." and has
\* made no fetch; the application then shows the error screen with details
\* and keeps its stored result untouched; the result screen is never shown
\* without a video URL and a video object that has a URI.
C22_MissingUriIsAnError ==
    /\ [](\A i \in 1..Len(calls) :
            (IsSome(calls[i].operation) /\ NoLocationHandle(calls[i].operation.val)) =>
                /\ calls[i].pc = "rejected"
                /\ calls[i].thrown = Some([isError |-> TRUE, message |-> MissingUriMessage])
                /\ calls[i].fetch = None
                /\ calls[i].res = None)
    /\ [](appState = SUCCESS =>
            /\ IsSome(videoUrl)
            /\ IsSome(lastVideoObject)
            /\ IsSome(lastVideoObject.val.uri)
            /\ lastVideoObject.val.uri.val # <<>>)
    /\ [][\A i \in 1..Len(calls) :
            (IsSome(calls[i].operation) /\ NoLocationHandle(calls[i].operation.val)
                /\ Len(calls') < Len(calls)) =>
              /\ appState' = ERROR
              /\ errorDetails' = Some(ErrorDetailsFor(MissingUriMessage))
              /\ errorDetails'.val.message.text =
                    <<"Video generation failed: ">> \o MissingUriMessage
              /\ UNCHANGED <<videoUrl, lastVideoObject, lastVideoBlob>>]_vars

\* the provider's result had no URI and the error screen is shown
C22_Witness ==
    /\ appState = ERROR
    /\ calls = <<>>
    /\ IsSome(errorDetails)
    /\ errorDetails.val.message.text = <<"Video generation failed: ">> \o MissingUriMessage
    /\ videoUrl = None

\* C23: an invocation whose fetch response is not ok returns nothing and is
\* rejected, with the "Failed to fetch video" message or, when the reading
\* of the response's text was rejected, with that rejection; an invocation that
\* returns holds an ok response and returns that response's blob, its object
\* URL and the video descriptor of the first result of the terminal handle;
\* the application enters SUCCESS only by consuming such a return, storing
\* those three values.
C23_FetchedContentWithDescriptor ==
    /\ [](\A i \in 1..Len(calls) :
            LET c == calls[i]
            IN  /\ (IsSome(c.res) /\ ~c.res.val.ok) =>
                      /\ c.pc \in {"text", "rejected"}
                      /\ c.result = None
                      /\ c.pc = "rejected" =>
                            \/ c.thrown = Some([isError |-> TRUE,
                                                message |-> FetchFailedMessage(c.res.val)])
                            \/ c.thrown.val \in Rejections
                /\ c.pc = "resolved" =>
                      /\ IsSome(c.res) /\ c.res.val.ok
                      /\ GoodHandle(c.operation.val)
                      /\ c.result.val.videoBlob = c.res.val.blob
                      /\ c.result.val.videoUrl = createObjectURL(c.res.val.blob)
                      /\ c.result.val.videoObject =
                            c.operation.val.response.val.generatedVideos.val[1].video.val)
    /\ [][(appState # SUCCESS /\ appState' = SUCCESS) =>
            \E i \in 1..Len(calls) :
                /\ calls[i].pc = "resolved"
                /\ Len(calls') = Len(calls) - 1
                /\ videoUrl' = Some(calls[i].result.val.videoUrl)
                /\ lastVideoBlob' = Some(calls[i].result.val.videoBlob)
                /\ lastVideoObject' = Some(calls[i].result.val.videoObject)]_vars

\* a response that was not ok has led to the error screen with its status,
\* nothing stored
C23_Witness ==
    /\ appState = ERROR
    /\ calls = <<>>
    /\ IsSome(errorDetails)
    /\ errorDetails.val.message.text =
          <<"Video generation failed: ", "Failed to fetch video: ", "4", "0", "3",
            " ", "Forbidden">>
    /\ lastVideoBlob = None

\* the position of the first "Reason: " in a failure text, 0 when it has none
FirstReasonAt(msg) ==
    LET at == {k \in 1..Len(msg) : msg[k] = "Reason: "}
    IN  IF at = {} THEN 0 ELSE CHOOSE k \in at : \A j \in at : k <= j

\* C24: when handleGenerate's catch block takes a failure for a policy
\* rejection, the details it stores hold the text that follows the first
\* "Reason: " of the failure text, unchanged, when there is one; when there is
\* none they hold no reason, but the fixed suggestion to change the input
\* and try again, with the whole failure text as details. For a terminal
\* handle with safety reasons the reason shown is the provider's reasons
\* joined by spaces.
C24_ReasonShownVerbatim ==
    [][\A i \in 1..Len(calls) :
        (calls[i].pc = "rejected" /\ Len(calls') < Len(calls)) =>
          LET msg == errorMsgString(calls[i].thrown.val)
              k == FirstReasonAt(msg)
              d == errorDetails'.val
          IN  (SafetyPattern(msg) /\ ~QuotaPattern(msg)) =>
                /\ appState' = ERROR
                /\ IsSome(errorDetails')
                /\ d.title = PolicyTitle
                /\ d.message.text = baseMessage
                /\ k # 0 =>
                      /\ d.message.reason = Some(SubSeq(msg, k + 1, Len(msg)))
                      /\ d.message.details = None
                /\ k = 0 =>
                      /\ d.message.reason = None
                      /\ d.message.details = Some(msg)
                /\ (IsSome(calls[i].operation)
                      /\ FilteredHandle(calls[i].operation.val)) =>
                      d.message.reason = Some(Join(
                          calls[i].operation.val.response.val.raiMediaFilteredReasons.val,
                          <<" ">>))]_vars

\* the error screen shows the two reasons the provider gave
C24_Witness ==
    /\ appState = ERROR
    /\ IsSome(errorDetails)
    /\ errorDetails.val.title = PolicyTitle
    /\ errorDetails.val.message.reason = Some(<<"violent content", " ", "celebrity">>)
    /\ errorDetails.val.message.details = None

\* C25: when the form that Extend has prepopulated is submitted with a prompt
\* that is not blank, the request is in extend-video mode, carries the video
\* object of the previous result, and is handed to the provider with that
\* video in its payload.
C25_ExtendCarriesVideoObject ==
    [][(/\ FormShown
        /\ initialFormValues # None
        /\ initialFormValues.val.mode = EXTEND_VIDEO
        /\ form.val.generationMode = EXTEND_VIDEO
        /\ Trim(form.val.prompt) # <<>>
        /\ IsSome(lastVideoObject)
        /\ Len(calls') = Len(calls) + 1) =>
          LET c == calls'[Len(calls')]
          IN  /\ c.params.mode = EXTEND_VIDEO
              /\ c.params.videoObject = lastVideoObject
              /\ c.pc = "submit"
              /\ IsSome(c.payload)
              /\ c.payload.val.video = lastVideoObject]_vars

\* the form prepopulated by Extend has been submitted
C25_Witness ==
    /\ appState = LOADING
    /\ IsSome(lastVideoObject)
    /\ IsSome(lastConfig)
    /\ lastConfig.val.mode = EXTEND_VIDEO
    /\ Trim(lastConfig.val.prompt) # <<>>
    /\ Len(calls) = 1

\* the loop flag of a form in frames-to-video mode is set only with a start
\* frame and without an end frame
LoopFlagConsistent(f) ==
    (f.generationMode = FRAMES_TO_VIDEO /\ f.isLooping) =>
        (IsSome(f.startFrame) /\ ~IsSome(f.endFrame))

\* C26: no user action on a form in frames-to-video mode (selecting or
\* removing a frame, toggling the loop) and no completion of a file read
\* leads from a form whose loop flag implies a start frame and no end frame
\* to a form in frames-to-video mode whose loop flag is set without a start
\* frame or with an end frame.
C26_LoopImpliesStartAndNoEnd ==
    [][(/\ FormShown
        /\ form.val.generationMode = FRAMES_TO_VIDEO
        /\ LoopFlagConsistent(form.val)
        /\ form' # None) =>
          LoopFlagConsistent(form'.val)]_vars

\* the loop flag has been set while the file picked as end frame is still
\* being read
C26_Witness ==
    /\ FormShown
    /\ form.val.generationMode = FRAMES_TO_VIDEO
    /\ form.val.isLooping
    /\ IsSome(form.val.startFrame)
    /\ \E k \in 1..Len(pending) : pending[k].target = "end"

\* C27: in every reachable state of the application, the error screen has
\* error details, the loading screen has none, and outside the form screen
\* the last submitted configuration is kept.
C27_AppStateInvariants ==
    /\ appState \in {IDLE, LOADING, SUCCESS, ERROR}
    /\ appState = ERROR => errorDetails # None
    /\ appState = LOADING => errorDetails = None
    /\ appState # IDLE => lastConfig # None

\* a second request is loading after the first one had ended on the error
\* screen; the details of that error are gone
C27_Witness ==
    /\ appState = LOADING
    /\ nUserActs = 2
    /\ errorDetails = None
    /\ lastConfig # None
    /\ lastVideoObject = None
    /\ Len(calls) = 1
    /\ calls[1].pc = "sleep"

\* the category the precedence quota, policy phrase, credential, generic
\* assigns to a failure text
CategoryOf(msg) ==
    IF QuotaPattern(msg) THEN "quota"
    ELSE IF SafetyPattern(msg) THEN "safety"
    ELSE IF CredentialPattern(msg) THEN "credential"
    ELSE "generic"

\* the error details are those of the category
ShownIn(category, d, msg) ==
    CASE category = "quota" -> ShownAsQuota(d)
      [] category = "safety" -> ShownAsSafety(d)
      [] category = "credential" -> ShownAsCredential(d)
      [] OTHER -> ShownAsGeneric(d, msg)

\* C28: the step in which handleGenerate's catch block consumes a failure
\* shows it in the category that the fixed precedence (quota, then the
\* policy phrase, then the credential patterns, then generic) assigns to its
\* text, also when the text matches several patterns, and in no other; the
\* clear-media flag is set by that step exactly in the policy category.
C28_ClassificationPrecedence ==
    [][\A i \in 1..Len(calls) :
        (calls[i].pc = "rejected" /\ Len(calls') < Len(calls)) =>
          LET msg == errorMsgString(calls[i].thrown.val)
              d == errorDetails'.val
          IN  /\ IsSome(errorDetails')
              /\ \A k \in {"quota", "safety", "credential", "generic"} :
                    ShownIn(k, d, msg) <=> (k = CategoryOf(msg))
              /\ clearImagesOnTryAgain = FALSE
              /\ clearImagesOnTryAgain' = (CategoryOf(msg) = "safety")]_vars

\* a failure text with the policy phrase and a credential pattern is shown
\* as a policy rejection, and the flag is set
C28_Witness ==
    /\ appState = ERROR
    /\ calls = <<>>
    /\ IsSome(errorDetails)
    /\ ShownAsSafety(errorDetails.val)
    /\ IsSome(errorDetails.val.message.details)
    /\ Contains(errorDetails.val.message.details.val, <<"API key not valid">>)
    /\ clearImagesOnTryAgain

\* C29: the duration held by the form, and the duration of every request the
\* form hands to handleGenerate, is at least 1 and at most 30 seconds for
\* the model VEO and 15 seconds for any other model.
C29_DurationWithinModelMaximum ==
    /\ [](FormShown =>
            /\ form.val.duration >= 1
            /\ form.val.duration <= (IF form.val.model = VEO THEN 30 ELSE 15))
    /\ [][Len(calls') = Len(calls) + 1 =>
            LET p == calls'[Len(calls')].params
            IN  /\ p.duration >= 1
                /\ p.duration <= (IF p.model = VEO THEN 30 ELSE 15)
                /\ p.model = form.val.model
                /\ p.duration = form.val.duration]_vars

\* a form prepopulated with a 30 second request for the slow model has been
\* switched to the fast model, and the effect has brought it to 15 seconds
C29_Witness ==
    /\ FormShown
    /\ initialFormValues = Some(TextConfig)
    /\ initialFormValues.val.duration = 30
    /\ form.val.model = VEO_FAST
    /\ form.val.duration = 15
    /\ ~isSubmitDisabled(form.val)

\* C30: an invocation that has returned ended on a handle with a response
\* and without an error; an invocation whose done handle has an error is
\* rejected with the provider's error message and code, also when the
\* handle has a response as well, and makes no fetch; an invocation whose
\* done handle has neither is rejected with the "finished without a response
\* or an error" message.
C30_ErrorFirstThenResponse ==
    \A i \in 1..Len(calls) :
        LET c == calls[i]
            op == c.operation.val
        IN  /\ c.pc = "resolved" =>
                  (IsSome(c.operation) /\ op.done /\ op.error = None /\ op.response # None)
            /\ (IsSome(c.operation) /\ op.done /\ op.error # None) =>
                  /\ c.pc = "rejected"
                  /\ c.thrown = Some([isError |-> TRUE,
                        message |-> <<"Video generation failed: ">> \o op.error.val.message
                            \o <<" (Code: ">> \o IntToStr(op.error.val.code) \o <<")">>])
                  /\ c.fetch = None
            /\ (IsSome(c.operation) /\ op.done /\ op.error = None /\ op.response = None) =>
                  /\ c.pc = "rejected"
                  /\ c.thrown = Some([isError |-> TRUE, message |-> NoResponseMessage])
                  /\ c.fetch = None

\* a done handle that carried an error and a response with a video has been
\* rejected with the error
C30_Witness ==
    \E i \in 1..Len(calls) :
        /\ calls[i].pc = "rejected"
        /\ IsSome(calls[i].operation)
        /\ calls[i].operation.val.error # None
        /\ calls[i].operation.val.response # None
        /\ calls[i].thrown.val.message =
              <<"Video generation failed: ", "X", " (Code: ", "1", "3", ")">>

====
